---- MODULE Spec2Model ----
(***************************************************************************)
(* The glossary builder of scripts/generate_glossary.py: the existing-     *)
(* glossary parser, the supplementary-section extractor, the usage         *)
(* scanner, the candidate-term detector, the renderer and the command-line *)
(* driver main() that chains them.                                         *)
(*                                                                         *)
(* Text.  A Python str is modelled as a sequence of atoms.  An atom is one *)
(* character ("#", " ", "A", "\n", ...) or a literal run of characters     *)
(* that the program itself writes or looks for as a unit (a front-matter   *)
(* field, the introduction, a footer phrase, a reserved section name).     *)
(* The inputs never spell a literal run character by character, so every   *)
(* str has one representation.  The backtick character is the atom         *)
(* "<backtick>".  Every regular expression and str method of the program   *)
(* is an operator over atom sequences that does what the call does.        *)
(***************************************************************************)
EXTENDS Naturals, Integers, Sequences, FiniteSets, TLC

NL == "\n"
BT == "<backtick>"

(* str.strip() / \s : the whitespace characters *)
Whitespace == {" ", "\n", "\t"}

UpperCase ==
    {"A","B","C","D","E","F","G","H","I","J","K","L","M",
     "N","O","P","Q","R","S","T","U","V","W","X","Y","Z"}
LowerCase ==
    {"a","b","c","d","e","f","g","h","i","j","k","l","m",
     "n","o","p","q","r","s","t","u","v","w","x","y","z"}
Digits == {"0","1","2","3","4","5","6","7","8","9"}

(* \b of the re module: word characters are [A-Za-z0-9_] *)
WordChars == UpperCase \cup LowerCase \cup Digits \cup {"_"}

ToLower ==
    [A |-> "a", B |-> "b", C |-> "c", D |-> "d", E |-> "e", F |-> "f",
     G |-> "g", H |-> "h", I |-> "i", J |-> "j", K |-> "k", L |-> "l",
     M |-> "m", N |-> "n", O |-> "o", P |-> "p", Q |-> "q", R |-> "r",
     S |-> "s", T |-> "t", U |-> "u", V |-> "v", W |-> "w", X |-> "x",
     Y |-> "y", Z |-> "z"]

(* ord() of the characters that occur in section letters and term names *)
Ord ==
    [c \in UpperCase \cup LowerCase \cup Digits \cup
           {" ", "#", "(", ")", "*", "+", "-", ".", "/", ":", "_"} |->
        CASE c = " " -> 32 [] c = "#" -> 35 [] c = "(" -> 40 [] c = ")" -> 41
          [] c = "*" -> 42 [] c = "+" -> 43 [] c = "-" -> 45 [] c = "." -> 46
          [] c = "/" -> 47 [] c = ":" -> 58 [] c = "_" -> 95
          [] c \in Digits ->
               48 + (CHOOSE n \in 0..9 :
                       <<"0","1","2","3","4","5","6","7","8","9">>[n + 1] = c)
          [] c \in UpperCase ->
               64 + (CHOOSE n \in 1..26 :
                       <<"A","B","C","D","E","F","G","H","I","J","K","L","M",
                         "N","O","P","Q","R","S","T","U","V","W","X","Y","Z">>[n] = c)
          [] c \in LowerCase ->
               96 + (CHOOSE n \in 1..26 :
                       <<"a","b","c","d","e","f","g","h","i","j","k","l","m",
                         "n","o","p","q","r","s","t","u","v","w","x","y","z">>[n] = c)]

(* str.lower() *)
lower(s) == [i \in 1..Len(s) |-> IF s[i] \in UpperCase THEN ToLower[s[i]] ELSE s[i]]

(* v, once the values of steps have been worked out one after the other,  *)
(* as the statements of the code are.  TLC puts a value off until          *)
(* something needs it; the comparison is what needs the steps here.        *)
After(steps, v) == IF steps = steps THEN v ELSE v

(* the positions of s, in order *)
Indices(s) == [i \in 1..Len(s) |-> i]

(* the first of the positions P, or 0 when there is none *)
FirstOf(P) == IF P = <<>> THEN 0 ELSE P[1]

(* the last of the positions P, or 0 when there is none *)
LastOf(P) == IF P = <<>> THEN 0 ELSE P[Len(P)]

(* where a scan of s from i stops: at j, the position it found, or past   *)
(* the end of s when it found none (j = 0)                                 *)
OrPastEnd(j, s, i) == IF j # 0 THEN j ELSE IF i > Len(s) THEN i ELSE Len(s) + 1

(* the first j >= i where s[j] is not whitespace, or past the end of s *)
FirstNonSpace(s, i) ==
    OrPastEnd(FirstOf(SelectSeq(Indices(s),
                                LAMBDA n : n >= i /\ s[n] \notin Whitespace)),
              s, i)

(* the last j <= i where s[j] is not whitespace, or 0 *)
LastNonSpace(s, i) ==
    LastOf(SelectSeq(Indices(s), LAMBDA j : j <= i /\ s[j] \notin Whitespace))

(* str.strip() and str.rstrip() *)
strip(s) == SubSeq(s, FirstNonSpace(s, 1), LastNonSpace(s, Len(s)))
rstrip(s) == SubSeq(s, 1, LastNonSpace(s, Len(s)))

(* content.split("\n") *)
split_lines(s) ==
    LET Between(nl) ==
            [k \in 1..(Len(nl) + 1) |->
                SubSeq(s, IF k = 1 THEN 1 ELSE nl[k - 1] + 1,
                          IF k > Len(nl) THEN Len(s) ELSE nl[k] - 1)]
    IN  Between(SelectSeq(Indices(s), LAMBDA j : s[j] = NL))

(* "\n".join(lines) *)
RECURSIVE JoinRange(_, _, _, _)
JoinRange(sep, lines, lo, hi) ==
    IF lo > hi THEN <<>>
    ELSE IF lo = hi THEN lines[lo]
    ELSE LET mid == (lo + hi) \div 2
         IN  JoinRange(sep, lines, lo, mid) \o sep
             \o JoinRange(sep, lines, mid + 1, hi)
join_lines(lines) == JoinRange(<<NL>>, lines, 1, Len(lines))

(* the texts of ss, one after the other *)
Concat(ss) == JoinRange(<<>>, ss, 1, Len(ss))

(* s[i:i+len(p)] == p *)
StartsAt(s, i, p) ==
    /\ i >= 1
    /\ i + Len(p) - 1 <= Len(s)
    /\ \A k \in 1..Len(p) : s[i + k - 1] = p[k]

(* python's < on str: lexicographic by code point *)
StrLess(a, b) ==
    LET LessAt(d) == IF d = 0 THEN Len(a) < Len(b)
                     ELSE d <= Len(b) /\ Ord[a[d]] < Ord[b[d]]
    IN  LessAt(FirstOf(SelectSeq(Indices(a), LAMBDA n : n > Len(b) \/ a[n] # b[n])))

(***************************************************************************)
(* Constants of the module                                                 *)
(***************************************************************************)

GlossaryName == "glossary.md"

EXCLUDED_FILES == {"glossary.md", "changelog.md"}

(* NON_TERM_SECTIONS without the abbreviations *)
NON_TERM_SECTIONS_two ==
    {<<"Metadata Tags Reference">>, <<"Tool Names Quick Reference">>}

NON_TERM_SECTIONS ==
    {<<"Metadata Tags Reference">>, <<"Common Abbreviations">>,
     <<"Tool Names Quick Reference">>}

RULE == <<"-", "-", "-">>

FRONTMATTER ==
    join_lines(<<RULE,
                 <<"title: \"Glossary\"">>,
                 <<"description: \"Comprehensive glossary of terms used in the Dukes Engineering Style Guide\"">>,
                 <<"author: \"Tyler Dukes\"">>,
                 <<"tags: [glossary, terms, definitions, reference, dictionary]">>,
                 <<"category: \"Reference\"">>,
                 <<"status: \"active\"">>,
                 RULE>>)

(* what a path holds: no file, or a file with its text *)
NoFile == [exists |-> FALSE, content |-> <<>>]
File(text) == [exists |-> TRUE, content |-> text]

(* Optional[...]: None, or a value *)
None == [some |-> FALSE, value |-> [k \in {} |-> {}]]
Some(v) == [some |-> TRUE, value |-> v]

(* a dict with no key, and d[k] = v *)
EmptyDict == [k \in {} |-> {}]
DictSet(d, k, v) == [x \in DOMAIN d \cup {k} |-> IF x = k THEN v ELSE d[x]]

(***************************************************************************)
(* parse_existing_glossary                                                 *)
(***************************************************************************)

(* re.match(r"^## ([A-Z])$", s) on a stripped line *)
section_match(s) ==
    /\ Len(s) = 4
    /\ StartsAt(s, 1, <<"#", "#", " ">>)
    /\ s[4] \in UpperCase

(* re.match(r"^## (.+)$", s) on a stripped line *)
non_term_match(s) == Len(s) >= 4 /\ StartsAt(s, 1, <<"#", "#", " ">>)

(* re.match(r"^### (.+)$", s) on a stripped line *)
term_match(s) == Len(s) >= 5 /\ StartsAt(s, 1, <<"#", "#", "#", " ">>)

(* the first j >= i where s[j] is not a newline, or past the end of s *)
SkipNewlines(s, i) ==
    OrPastEnd(FirstOf(SelectSeq(Indices(s), LAMBDA n : n >= i /\ s[n] # NL)),
              s, i)

\* s[i:] matches (\n*---\s*)+$ : each group takes the newlines before a
\* rule, the rule and the whitespace after it, up to the end of s
RECURSIVE RuleRunToEnd(_, _)
RuleRunToEnd(s, i) ==
    LET \* k is where the whitespace after a rule ends
        GoesOn(k) == k > Len(s) \/ RuleRunToEnd(s, k)
        \* j is where the newlines before a rule end
        RuleAt(j) == StartsAt(s, j, RULE) /\ GoesOn(FirstNonSpace(s, j + 3))
    IN  RuleAt(SkipNewlines(s, i))

(* s up to the position p of a match, or s when there is no match (p = 0) *)
CutAt(s, p) == IF p = 0 THEN s ELSE SubSeq(s, 1, p - 1)

\* re.sub(r"(\n*---\s*)+$", "", s): the leftmost match is removed
sub_trailing_rules(s) ==
    CutAt(s, FirstOf(SelectSeq(Indices(s), LAMBDA p : RuleRunToEnd(s, p))))

(* SaveTerm that keeps the Term the key already has: the first header wins *)
SaveTermKeepFirst(st) ==
    LET definition == strip(sub_trailing_rules(strip(join_lines(st.current_definition_lines))))
    IN  IF lower(st.current_term) \in DOMAIN st.terms THEN st.terms
        ELSE DictSet(st.terms, lower(st.current_term),
                     [name |-> st.current_term,
                      definition |-> definition,
                      section |-> st.current_section])

(* the four "save previous term" blocks (lines 100-106, 118-124, 140-147,  *)
(* 158-164): the same statements                                           *)
SaveTerm(st) ==
    LET joined == join_lines(st.current_definition_lines)
        stripped == strip(joined)
        no_rules == sub_trailing_rules(stripped)
        definition == strip(no_rules)
    IN  After(<<joined, stripped, no_rules, definition>>,
              DictSet(st.terms, lower(st.current_term),
                      [name |-> st.current_term,
                       definition |-> definition,
                       section |-> st.current_section]))

ParserInit ==
    [terms |-> EmptyDict,
     current_section |-> <<>>,
     current_term |-> <<>>,
     current_definition_lines |-> <<>>,
     in_frontmatter |-> FALSE,
     frontmatter_count |-> 0,
     in_non_term_section |-> FALSE]

(* ParseLine where every '---' line toggles the front-matter flag, the     *)
(* third and the later ones too                                            *)
ParseLineEveryRuleToggles(st, line) ==
    LET s == strip(line)
        st1 == [st EXCEPT !.frontmatter_count =
                              IF s = RULE THEN @ + 1 ELSE @]
    IN  IF s = RULE
        THEN [st1 EXCEPT !.in_frontmatter = ~st.in_frontmatter]
        ELSE IF st1.in_frontmatter THEN st1
        ELSE IF section_match(s)
        THEN [st1 EXCEPT
                !.terms = IF st1.current_term # <<>> /\ ~st1.in_non_term_section
                          THEN SaveTerm(st1) ELSE @,
                !.current_section = <<s[4]>>,
                !.current_term = <<>>,
                !.current_definition_lines = <<>>,
                !.in_non_term_section = FALSE]
        ELSE IF non_term_match(s)
        THEN [st1 EXCEPT
                !.terms = IF st1.current_term # <<>> /\ ~st1.in_non_term_section
                          THEN SaveTerm(st1) ELSE @,
                !.in_non_term_section =
                    IF strip(SubSeq(s, 4, Len(s))) \in NON_TERM_SECTIONS
                    THEN TRUE ELSE @,
                !.current_term = <<>>,
                !.current_definition_lines = <<>>]
        ELSE IF st1.in_non_term_section THEN st1
        ELSE IF term_match(s)
        THEN [st1 EXCEPT
                !.terms = IF st1.current_term # <<>> THEN SaveTerm(st1) ELSE @,
                !.current_term = strip(SubSeq(s, 5, Len(s))),
                !.current_definition_lines = <<>>]
        ELSE IF st1.current_term # <<>>
        THEN [st1 EXCEPT !.current_definition_lines = Append(@, line)]
        ELSE st1

(* one iteration of the loop over the lines *)
ParseLine(st, line) ==
    LET s == strip(line)
        count == IF s = RULE THEN st.frontmatter_count + 1
                 ELSE st.frontmatter_count
        st1 == [st EXCEPT !.frontmatter_count = count]
    IN  IF s = RULE /\ count <= 2
        THEN [st1 EXCEPT !.in_frontmatter = ~st.in_frontmatter]
        ELSE IF st1.in_frontmatter THEN st1
        ELSE IF section_match(s)
        THEN [st1 EXCEPT
                !.terms = IF st1.current_term # <<>> /\ ~st1.in_non_term_section
                          THEN SaveTerm(st1) ELSE @,
                !.current_section = <<s[4]>>,
                !.current_term = <<>>,
                !.current_definition_lines = <<>>,
                !.in_non_term_section = FALSE]
        ELSE IF non_term_match(s)
        THEN [st1 EXCEPT
                !.terms = IF st1.current_term # <<>> /\ ~st1.in_non_term_section
                          THEN SaveTerm(st1) ELSE @,
                !.in_non_term_section =
                    IF strip(SubSeq(s, 4, Len(s))) \in NON_TERM_SECTIONS
                    THEN TRUE ELSE @,
                !.current_term = <<>>,
                !.current_definition_lines = <<>>]
        ELSE IF st1.in_non_term_section THEN st1
        ELSE IF term_match(s)
        THEN [st1 EXCEPT
                !.terms = IF st1.current_term # <<>> THEN SaveTerm(st1) ELSE @,
                !.current_term = strip(SubSeq(s, 5, Len(s))),
                !.current_definition_lines = <<>>]
        ELSE IF st1.current_term # <<>>
        THEN [st1 EXCEPT !.current_definition_lines = Append(@, line)]
        ELSE st1

(* the loop over lines[lo..hi]: over its first half, and from the state   *)
(* that leaves, over the rest                                              *)
RECURSIVE ParseLines(_, _, _, _)
ParseLines(st, lines, lo, hi) ==
    IF lo > hi THEN st
    ELSE IF lo = hi THEN ParseLine(st, lines[lo])
    ELSE LET mid == (lo + hi) \div 2
             half == ParseLines(st, lines, lo, mid)
         IN  After(<<half>>, ParseLines(half, lines, mid + 1, hi))

parse_existing_glossary(file) ==
    LET \* lines 157-166, on the state st the loop leaves
        SaveLastTerm(st) ==
            After(<<st>>, IF st.current_term # <<>> /\ ~st.in_non_term_section
                          THEN SaveTerm(st) ELSE st.terms)
        \* lines 75-166, on the lines of the file
        ParseText(lines) ==
            After(<<lines>>,
                  SaveLastTerm(ParseLines(ParserInit, lines, 1, Len(lines))))
    IN  IF ~file.exists THEN EmptyDict
        ELSE ParseText(split_lines(file.content))

(***************************************************************************)
(* parse_supplementary_sections                                            *)
(***************************************************************************)

ExtractorInit ==
    [supplementary_lines |-> <<>>,
     capturing |-> FALSE,
     in_frontmatter |-> FALSE,
     frontmatter_count |-> 0]

(* ExtractLine without the front-matter flag: a '---' line is a line like  *)
(* any other                                                               *)
ExtractLineNoFrontMatter(st, line) ==
    LET s == strip(line)
        section_name == strip(SubSeq(s, 4, Len(s)))
    IN  IF non_term_match(s) /\ section_name \in NON_TERM_SECTIONS
        THEN [st EXCEPT !.capturing = TRUE,
                        !.supplementary_lines = Append(@, line)]
        ELSE IF non_term_match(s) /\ Len(section_name) = 1
                /\ section_name[1] \in UpperCase
        THEN [st EXCEPT !.capturing = FALSE]
        ELSE IF st.capturing
        THEN [st EXCEPT !.supplementary_lines = Append(@, line)]
        ELSE st

ExtractLine(st, line) ==
    LET s == strip(line)
        count == IF s = RULE THEN st.frontmatter_count + 1
                 ELSE st.frontmatter_count
        st1 == [st EXCEPT !.frontmatter_count = count]
        section_name == strip(SubSeq(s, 4, Len(s)))
    IN  IF s = RULE /\ count <= 2
        THEN [st1 EXCEPT !.in_frontmatter = ~st.in_frontmatter]
        ELSE IF st1.in_frontmatter THEN st1
        ELSE IF non_term_match(s) /\ section_name \in NON_TERM_SECTIONS
        THEN [st1 EXCEPT !.capturing = TRUE,
                         !.supplementary_lines = Append(@, line)]
        ELSE IF non_term_match(s) /\ Len(section_name) = 1
                /\ section_name[1] \in UpperCase
        THEN [st1 EXCEPT !.capturing = FALSE]
        ELSE IF st1.capturing
        THEN [st1 EXCEPT !.supplementary_lines = Append(@, line)]
        ELSE st1

(* the loop over lines[lo..hi]: over its first half, and from the state   *)
(* that leaves, over the rest                                              *)
RECURSIVE ExtractLines(_, _, _, _)
ExtractLines(st, lines, lo, hi) ==
    IF lo > hi THEN st
    ELSE IF lo = hi THEN ExtractLine(st, lines[lo])
    ELSE LET mid == (lo + hi) \div 2
             half == ExtractLines(st, lines, lo, mid)
         IN  After(<<half>>, ExtractLines(half, lines, mid + 1, hi))

(* re.sub(marker + ".*", "", s): every occurrence of the marker is removed *)
(* with the rest of its line                                               *)
SubToEol(s, marker) ==
    LET CutLine(line) ==
            CutAt(line, FirstOf(SelectSeq(Indices(line), LAMBDA n : line[n] = marker)))
        CutLines(lines) == [k \in 1..Len(lines) |-> CutLine(lines[k])]
    IN  join_lines(CutLines(split_lines(s)))

TotalTermsMark == "**Total Terms**:"
AdditionalMark == "For additional terms"
RepositoryMark == "[GitHub repository]"

footer_patterns == <<TotalTermsMark, AdditionalMark, RepositoryMark>>

(* for pattern in footer_patterns: result = re.sub(pattern, "", result) *)
strip_footer(s) ==
    LET r1 == SubToEol(s, footer_patterns[1])
        r2 == SubToEol(r1, footer_patterns[2])
    IN  After(<<r1, r2>>, SubToEol(r2, footer_patterns[3]))

(* re.sub(r"\n---\s*$", "", s): the leftmost "\n---" that only whitespace  *)
(* follows is removed with what follows it                                 *)
sub_final_rule(s) ==
    CutAt(s, FirstOf(SelectSeq(Indices(s),
                               LAMBDA p : /\ StartsAt(s, p, <<NL>> \o RULE)
                                          /\ FirstNonSpace(s, p + 4) > Len(s))))

parse_supplementary_sections(file) ==
    LET \* lines 210-224, on the lines the loop captured
        Clean(supplementary_lines) ==
            LET joined == join_lines(supplementary_lines)
                result == strip(joined)
                no_footer == strip_footer(result)
                stripped == rstrip(no_footer)
                cleaned == sub_final_rule(stripped)
            IN  After(<<supplementary_lines, joined, result, no_footer,
                        stripped, cleaned>>,
                      strip(cleaned))
        \* lines 180-224, on the lines of the file
        ExtractText(lines) ==
            After(<<lines>>,
                  Clean(ExtractLines(ExtractorInit, lines, 1,
                                     Len(lines)).supplementary_lines))
    IN  IF ~file.exists THEN <<>>
        ELSE ExtractText(split_lines(file.content))

(***************************************************************************)
(* scan_docs_for_term_usage                                                *)
(***************************************************************************)

FENCE == <<BT, BT, BT>>

(* the first j >= i where a fence starts, or 0 *)
NextFence(s, i) ==
    FirstOf(SelectSeq(Indices(s), LAMBDA n : n >= i /\ StartsAt(s, n, FENCE)))

\* re.sub(r"```[\s\S]*?```", "", s): from a fence to the nearest fence after it
RECURSIVE strip_fenced(_, _)
strip_fenced(s, i) ==
    LET \* the block that opens at open closes at close, or is not closed (0)
        Block(open, close) ==
            IF close = 0 THEN SubSeq(s, i, Len(s))
            ELSE SubSeq(s, i, open - 1) \o strip_fenced(s, close + 3)
        \* the next block opens at open, or there is none (0)
        From(open) ==
            IF open = 0 THEN SubSeq(s, i, Len(s))
            ELSE Block(open, NextFence(s, open + 3))
    IN  From(NextFence(s, i))

(* the first j >= i where a backtick stands, or 0 *)
NextTick(s, i) == FirstOf(SelectSeq(Indices(s), LAMBDA n : n >= i /\ s[n] = BT))

\* re.sub(r"`[^`]+`", "", s): a backtick, one or more other characters, a backtick
RECURSIVE strip_inline(_, _)
strip_inline(s, i) ==
    LET \* the next match opens at open, or there is none (0)
        From(open) ==
            IF open = 0 THEN SubSeq(s, i, Len(s))
            ELSE SubSeq(s, i, open - 1)
                 \o strip_inline(s, NextTick(s, open + 1) + 1)
    IN  From(FirstOf(SelectSeq(Indices(s),
                               LAMBDA n : /\ n >= i /\ s[n] = BT
                                          /\ n + 1 <= Len(s) /\ s[n + 1] # BT
                                          /\ NextTick(s, n + 1) # 0)))

(* \b at the gap before s[i] (i in 1..Len(s)+1) *)
WordBoundary(s, i) ==
    LET before == i > 1 /\ s[i - 1] \in WordChars
        after == i <= Len(s) /\ s[i] \in WordChars
    IN  before # after

\* re.compile(r"\b" + re.escape(base_name) + r"\b", re.IGNORECASE).search(s)
pattern_search(base_name, s) ==
    \E i \in 1..Len(s) :
        /\ i + Len(base_name) - 1 <= Len(s)
        /\ lower(SubSeq(s, i, i + Len(base_name) - 1)) = lower(base_name)
        /\ WordBoundary(s, i)
        /\ WordBoundary(s, i + Len(base_name))

(* the first j >= i where s[j] = c, or Len(s) + 1 *)
Find(s, c, i) ==
    OrPastEnd(FirstOf(SelectSeq(Indices(s), LAMBDA n : n >= i /\ s[n] = c)), s, i)

(* term.name.split("(")[0].strip() *)
base_name_of(name) == strip(SubSeq(name, 1, Find(name, "(", 1) - 1))

(* the path of a document relative to docs_dir is the sequence of its parts *)
path_name(path) == path[Len(path)]

(* str(relative_path).replace(backslash, "/") *)
RECURSIVE display_of(_)
display_of(path) ==
    IF Len(path) = 1 THEN path
    ELSE <<path[1], "/">> \o display_of(Tail(path))

(* ScanFile with a Reference for every mention of the term in the document *)
ScanFilePerMention(references, path, content, terms) ==
    LET content_no_code == strip_inline(strip_fenced(content, 1), 1)
        display == display_of(path)
        ref == [file_path |-> <<"docs", "/">> \o display, display_path |-> display]
        W(k) == base_name_of(terms[k].name)
        Mentions(k) ==
            IF Len(W(k)) < 2 THEN 0
            ELSE Cardinality({i \in 1..Len(content_no_code) :
                     pattern_search(W(k),
                         SubSeq(content_no_code, i,
                                IF i + Len(W(k)) - 1 <= Len(content_no_code)
                                THEN i + Len(W(k)) - 1 ELSE i))})
        Old(k) == IF k \in DOMAIN references THEN references[k] ELSE <<>>
    IN  [k \in DOMAIN references \cup {t \in DOMAIN terms : Mentions(t) > 0} |->
            IF k \in DOMAIN terms
            THEN Old(k) \o [n \in 1..Mentions(k) |-> ref]
            ELSE Old(k)]

(* what one document adds to references: lines 253-266 *)
ScanFile(references, path, content, terms) ==
    LET content_no_code == strip_inline(strip_fenced(content, 1), 1)
        display == display_of(path)
        ref == [file_path |-> <<"docs", "/">> \o display, display_path |-> display]
        Hit(k) == /\ Len(base_name_of(terms[k].name)) >= 2
                  /\ pattern_search(base_name_of(terms[k].name), content_no_code)
        Old(k) == IF k \in DOMAIN references THEN references[k] ELSE <<>>
    IN  [k \in DOMAIN references \cup {t \in DOMAIN terms : Hit(t)} |->
            IF k \in DOMAIN terms /\ Hit(k)
               /\ ~\E n \in 1..Len(Old(k)) : Old(k)[n].display_path = display
            THEN Append(Old(k), ref)
            ELSE Old(k)]

(* the markdown paths that may exist under docs_dir, relative to it, in    *)
(* the order sorted(docs_dir.rglob("*.md")) lists them                     *)
DocPaths ==
    << <<"a.md">>, <<"b.md">>, <<"c.md">>, <<"changelog.md">>,
       <<"glossary.md">>, <<"sub", "changelog.md">>, <<"sub", "d.md">> >>

glossary_path == <<GlossaryName>>

(* a path outside docs_dir, for --output *)
OutsidePath == <<"..", "out.md">>

Paths == {DocPaths[i] : i \in 1..Len(DocPaths)} \cup {OutsidePath}

(* the loop over md_files from its i-th file on: lines 240-266.  A         *)
(* read_text() that fails raises, and nothing in the loop catches it       *)
RECURSIVE ScanFrom(_, _, _, _, _)
ScanFrom(fs, bad, terms, i, references) ==
    IF i > Len(DocPaths) THEN [raised |-> FALSE, value |-> references]
    ELSE IF ~fs[DocPaths[i]].exists \/ path_name(DocPaths[i]) \in EXCLUDED_FILES
    THEN ScanFrom(fs, bad, terms, i + 1, references)
    ELSE IF DocPaths[i] \in bad
    THEN [raised |-> TRUE, value |-> references]
    ELSE LET next == ScanFile(references, DocPaths[i], fs[DocPaths[i]].content, terms)
         IN  After(<<next>>, ScanFrom(fs, bad, terms, i + 1, next))

scan_docs_for_term_usage(fs, bad, terms) == ScanFrom(fs, bad, terms, 1, EmptyDict)

(***************************************************************************)
(* detect_candidate_terms                                                  *)
(***************************************************************************)

(* [A-Za-z0-9 /\-()] *)
BoldClass == UpperCase \cup LowerCase \cup Digits \cup {" ", "/", "-", "(", ")"}

BOLD == <<"*", "*">>

(* the first j >= i where s[j] is not in BoldClass, or Len(s) + 1 *)
BoldRunEnd(s, i) ==
    OrPastEnd(FirstOf(SelectSeq(Indices(s),
                                LAMBDA n : n >= i /\ s[n] \notin BoldClass)),
              s, i)

\* bold_pattern.finditer(s): the group(1) of each match of
\* \*\*([A-Z][A-Za-z0-9 /\-()]+)\*\* , left to right, without overlap
RECURSIVE find_bold(_, _)
find_bold(s, i) ==
    LET \* the class run that starts at n + 3 ends at q: it is not empty, and
        \* the closing asterisks follow it
        Closes(n, q) == q > n + 3 /\ StartsAt(s, q, BOLD)
        \* a match starts at n
        MatchAt(n) ==
            /\ StartsAt(s, n, BOLD)
            /\ n + 2 <= Len(s) /\ s[n + 2] \in UpperCase
            /\ Closes(n, BoldRunEnd(s, n + 3))
        \* the match at m, whose class run ends at q, and the matches after it
        Group(m, q) == <<SubSeq(s, m + 2, q - 1)>> \o find_bold(s, q + 2)
        \* the next match starts at m, or there is none (0)
        From(m) == IF m = 0 THEN <<>> ELSE Group(m, BoldRunEnd(s, m + 3))
    IN  From(FirstOf(SelectSeq(Indices(s), LAMBDA n : n >= i /\ MatchAt(n))))

SkipPrefixes ==
    {<<"V","e","r","s","i","o","n">>, <<"N","o","t","e">>,
     <<"W","a","r","n","i","n","g">>, <<"I","m","p","o","r","t","a","n","t">>}

(* the body of the loop over the matches: lines 294-305 *)
RECURSIVE CountMatches(_, _, _, _)
CountMatches(candidates, matches, known_terms, i) ==
    IF i > Len(matches) THEN candidates
    ELSE LET term == strip(matches[i])
             skip == \/ Len(term) < 3
                     \/ lower(term) \in known_terms
                     \/ \E pre \in SkipPrefixes : StartsAt(term, 1, pre)
                     \/ \E n \in 1..Len(term) : term[n] = ":"
             old == IF term \in DOMAIN candidates THEN candidates[term] ELSE 0
             next == IF skip THEN candidates ELSE DictSet(candidates, term, old + 1)
         IN  After(<<next>>, CountMatches(next, matches, known_terms, i + 1))

(* the loop over md_files from its i-th file on: lines 283-305 *)
RECURSIVE DetectFrom(_, _, _, _, _)
DetectFrom(fs, bad, known_terms, i, candidates) ==
    IF i > Len(DocPaths) THEN [raised |-> FALSE, value |-> candidates]
    ELSE IF ~fs[DocPaths[i]].exists \/ path_name(DocPaths[i]) \in EXCLUDED_FILES
    THEN DetectFrom(fs, bad, known_terms, i + 1, candidates)
    ELSE IF DocPaths[i] \in bad
    THEN [raised |-> TRUE, value |-> candidates]
    ELSE LET next == CountMatches(candidates,
                                  find_bold(strip_fenced(fs[DocPaths[i]].content, 1), 1),
                                  known_terms, 1)
         IN  After(<<next>>, DetectFrom(fs, bad, known_terms, i + 1, next))

CandidateThreshold == 3

detect_candidate_terms(fs, bad, known_terms) ==
    LET \* line 308: {k: v for k, v in candidates.items() if v >= 3}
        AtThreshold(candidates) ==
            [k \in {x \in DOMAIN candidates :
                        candidates[x] >= CandidateThreshold} |-> candidates[k]]
        \* what the loop r leaves: the exception, or the return of line 308
        Return(r) == [raised |-> r.raised, value |-> AtThreshold(r.value)]
    IN  Return(DetectFrom(fs, bad, known_terms, 1, EmptyDict))

(***************************************************************************)
(* generate_glossary_content                                               *)
(***************************************************************************)

IntroLine1 ==
    <<"This glossary defines terms used throughout the Dukes Engineering Style Guide, including technical concepts, tool names,">>
IntroLine2 == <<"metadata tags, and industry terminology.">>
FooterLine1 ==
    <<AdditionalMark,
      " or clarifications, please refer to the specific language guides or open an issue on the">>
FooterLine2 ==
    <<RepositoryMark, "(https://github.com/tydukes/coding-style-guide/issues).">>

(* str(n) of an int n >= 0 *)
RECURSIVE str_int(_)
DigitChars == <<"0", "1", "2", "3", "4", "5", "6", "7", "8", "9">>
str_int(n) ==
    IF n < 10 THEN <<DigitChars[n + 1]>>
    ELSE str_int(n \div 10) \o <<DigitChars[(n % 10) + 1]>>

(* sorted(xs, key=...) for the elements of DOMAIN key, whose keys differ:  *)
(* the element at index i is the one with i - 1 smaller keys               *)
sorted_by(key) ==
    [i \in 1..Cardinality(DOMAIN key) |->
        CHOOSE x \in DOMAIN key :
            Cardinality({y \in DOMAIN key : StrLess(key[y], key[x])}) = i - 1]

(* where a display path stands in the order of python's < on str; the      *)
(* parts of a path are atoms, and DocPaths lists the paths in that order   *)
path_rank(d) == CHOOSE i \in 1..Len(DocPaths) : display_of(DocPaths[i]) = d

(* sorted(refs, key=lambda r: r.display_path) for the set S of the refs *)
sorted_refs(S) ==
    [i \in 1..Cardinality(S) |->
        CHOOSE r \in S :
            Cardinality({u \in S : path_rank(u.display_path)
                                     < path_rank(r.display_path)}) = i - 1]

MaxShownRefs == 5

(* ref_lines without the cut of line 365: every reference is listed *)
ref_lines_uncut(refs) ==
    LET link(r) == <<"[">> \o r.display_path \o <<"](">> \o r.display_path \o <<")">>
        links(sorted) == [i \in 1..Len(sorted) |-> link(sorted[i])]
        joined(ls) == JoinRange(<<", ">>, ls, 1, Len(ls))
    IN  << <<>>,
           <<"*Referenced in: ">>
           \o joined(links(sorted_refs({refs[i] : i \in 1..Len(refs)})))
           \o <<"*">> >>

(* lines 360-370: the blank line and the "Referenced in" line of a term *)
ref_lines(refs) ==
    LET \* f"[{ref.display_path}]({ref.display_path})"
        link(r) == <<"[">> \o r.display_path \o <<"](">> \o r.display_path \o <<")">>
        \* ref_links[:5]
        shown(sorted) ==
            [i \in 1..(IF Len(sorted) < MaxShownRefs THEN Len(sorted)
                       ELSE MaxShownRefs) |-> link(sorted[i])]
        \* ', '.join(links)
        joined(links) == JoinRange(<<", ">>, links, 1, Len(links))
    IN  << <<>>,
           <<"*Referenced in: ">>
           \o joined(shown(sorted_refs({refs[i] : i \in 1..Len(refs)})))
           \o (IF Len(refs) > MaxShownRefs
               THEN <<" and ">> \o str_int(Len(refs) - MaxShownRefs) \o <<" more*">>
               ELSE <<"*">>) >>

(* term_lines with the lookup of line 357 under term.name, its case kept *)
term_lines_name_key(term, references, cross_ref) ==
    LET cross_ref_lines(key) ==
            IF cross_ref /\ references.some /\ DOMAIN references.value # {}
               /\ key \in DOMAIN references.value
               /\ references.value[key] # <<>>
            THEN ref_lines(references.value[key]) ELSE <<>>
    IN  << <<"#", "#", "#", " ">> \o term.name, <<>>, term.definition >>
        \o cross_ref_lines(term.name)
        \o << <<>> >>

(* lines 352-372: the lines of one term *)
term_lines(term, references, cross_ref) ==
    LET \* lines 357-370: the lines the references of the term of key add
        cross_ref_lines(key) ==
            IF cross_ref /\ references.some /\ DOMAIN references.value # {}
               /\ key \in DOMAIN references.value
               /\ references.value[key] # <<>>
            THEN ref_lines(references.value[key]) ELSE <<>>
    IN  << <<"#", "#", "#", " ">> \o term.name, <<>>, term.definition >>
        \o cross_ref_lines(lower(term.name))
        \o << <<>> >>

(* sections[letter]: lines 331-333 *)
in_section(terms, letter) ==
    {terms[k] : k \in {x \in DOMAIN terms : terms[x].section = letter}}

(* section_terms with key=lambda t: t.name, the case of the name kept *)
section_terms_case_sensitive(terms, letter) ==
    sorted_by([t \in in_section(terms, letter) |-> t.name])

(* sections[letter], sorted with key=lambda t: t.name.lower(): lines 335-336 *)
section_terms(terms, letter) ==
    sorted_by([t \in in_section(terms, letter) |-> lower(t.name)])

(* lines 347-372 *)
section_lines(terms, references, cross_ref, letters) ==
    LET \* lines 351-372: the lines of the terms ts of a section
        terms_lines(ts) ==
            Concat([n \in 1..Len(ts) |-> term_lines(ts[n], references, cross_ref)])
        \* lines 348-372: the lines of the section of a letter
        section_block(letter) ==
            << <<"#", "#", " ">> \o letter, <<>> >>
            \o terms_lines(section_terms(terms, letter))
    IN  Concat([i \in 1..Len(letters) |-> section_block(letters[i])])

(* sorted(sections.keys()) *)
sorted_sections(terms) ==
    sorted_by([letter \in {terms[k].section : k \in DOMAIN terms} |-> letter])

generate_glossary_content(terms, references, supplementary, cross_ref) ==
    join_lines(
        << FRONTMATTER, <<>>, IntroLine1, IntroLine2, <<>> >>
        \o section_lines(terms, references, cross_ref, sorted_sections(terms))
        \o (IF supplementary # <<>>
            THEN << RULE, <<>>, supplementary, <<>> >> ELSE <<>>)
        \o << RULE, <<>>,
              <<TotalTermsMark, " ">> \o str_int(Cardinality(DOMAIN terms)) \o <<"+">>,
              <<>>, FooterLine1, FooterLine2, <<>> >>)

(***************************************************************************)
(* main(): one run of the command is the walk of pc from "start" to "exit" *)
(* (return) or "raised" (an exception nothing catches ends the process).   *)
(***************************************************************************)

VARIABLES
    docs_exists,    \* docs_dir.exists()
    files,          \* the file system: what each path of Paths holds
    files0,         \* the file system before the first run
    unreadable,     \* the paths whose read_text() fails
    args,           \* the parsed command line
    pc,             \* where main() stands
    exit_code,      \* the exit status of the process, -1 while it runs
    run,            \* the number of the current run of the command
    terms,          \* main's terms
    supplementary,  \* main's supplementary
    references,     \* main's references (None until the scan)
    candidates,     \* main's candidates
    content,        \* main's content
    stdout,         \* what the run printed, one entry per print call
    preview,        \* what the preview printed, the text of each print call
    stderr,
    validator,      \* validate_metadata.py: the MetadataValidator object
    vrun,           \* validate_metadata.py: the process that runs main()
    hook            \* hooks/generate_page_index.py: the module in a build process

vars ==
    <<docs_exists, files, files0, unreadable, args, pc, exit_code, run, terms,
      supplementary, references, candidates, content, stdout, preview, stderr,
      validator, vrun, hook>>

env == <<docs_exists, files0, unreadable, args, run>>
vvars == <<validator, vrun>>

(* no run of validate_metadata.py has started *)
ValidatorIdle ==
    /\ validator = [strict |-> FALSE, check_unique |-> TRUE, errors |-> <<>>,
                    warnings |-> <<>>, module_names |-> [k \in {} |-> {}]]
    /\ vrun = [pc |-> "idle"]

(* no build process has loaded the page-index hook *)
HookIdle == hook = [pc |-> "idle"]

locals == <<terms, supplementary, references, candidates, content>>

(* output_path without line 433: the glossary of docs_dir, whatever --output *)
output_path_default == glossary_path

(* output_path = args.output or glossary_path *)
output_path == IF args.output.given THEN args.output.path ELSE glossary_path

Raise ==
    /\ pc' = "raised"
    /\ exit_code' = 1
    /\ stderr' = Append(stderr, "Traceback")

(* CheckDocsDir without the test of docs_dir.exists() *)
CheckDocsDirNoTest ==
    /\ pc = "start"
    /\ pc' = "parse"
    /\ UNCHANGED <<env, vvars, hook, preview, files, locals, stdout, stderr, exit_code>>

(* lines 432-438 *)
CheckDocsDir ==
    /\ pc = "start"
    /\ IF ~docs_exists
       THEN /\ stderr' = Append(stderr, "Error: Documentation directory not found")
            /\ pc' = "exit"
            /\ exit_code' = 1
       ELSE /\ pc' = "parse"
            /\ UNCHANGED <<stderr, exit_code>>
    /\ UNCHANGED <<env, vvars, hook, preview, files, locals, stdout>>

(* ParseGlossary when parse_existing_glossary lacks its test of            *)
(* glossary_path.exists(): read_text() of a missing file raises            *)
ParseGlossaryNoExistsTest ==
    /\ pc = "parse"
    /\ IF ~files[glossary_path].exists \/ glossary_path \in unreadable
       THEN /\ Raise
            /\ stdout' = Append(stdout, "Parsing existing glossary...")
            /\ UNCHANGED terms
       ELSE /\ terms' = parse_existing_glossary(files[glossary_path])
            /\ stdout' = stdout \o <<"Parsing existing glossary...",
                                     "Found defined terms">>
            /\ pc' = "supplementary"
            /\ UNCHANGED <<stderr, exit_code>>
    /\ UNCHANGED <<env, vvars, hook, preview, files, supplementary, references, candidates, content>>

(* lines 440-443 *)
ParseGlossary ==
    /\ pc = "parse"
    /\ IF files[glossary_path].exists /\ glossary_path \in unreadable
       THEN /\ Raise
            /\ stdout' = Append(stdout, "Parsing existing glossary...")
            /\ UNCHANGED terms
       ELSE /\ terms' = parse_existing_glossary(files[glossary_path])
            /\ stdout' = stdout \o <<"Parsing existing glossary...",
                                     "Found defined terms">>
            /\ pc' = "supplementary"
            /\ UNCHANGED <<stderr, exit_code>>
    /\ UNCHANGED <<env, vvars, hook, preview, files, supplementary, references, candidates, content>>

(* lines 445-450 *)
ParseSupplementary ==
    /\ pc = "supplementary"
    /\ supplementary' = parse_supplementary_sections(files[glossary_path])
    /\ pc' = IF args.cross_ref \/ args.scan_new THEN "scan" ELSE "render"
    /\ UNCHANGED <<env, vvars, hook, preview, files, terms, references, candidates, content,
                   stdout, stderr, exit_code>>

(* lines 450-457 *)
ScanUsage ==
    /\ pc = "scan"
    /\ LET r == scan_docs_for_term_usage(files, unreadable, terms)
       IN  IF r.raised
           THEN /\ Raise
                /\ stdout' = Append(stdout, "Scanning documentation for term usage...")
                /\ UNCHANGED references
           ELSE /\ references' = Some(r.value)
                /\ stdout' = stdout \o <<"Scanning documentation for term usage...",
                                         "terms referenced in docs">>
                /\ pc' = IF args.scan_new THEN "candidates" ELSE "render"
                /\ UNCHANGED <<stderr, exit_code>>
    /\ UNCHANGED <<env, vvars, hook, preview, files, terms, supplementary, candidates, content>>

(* lines 457-472 *)
DetectCandidates ==
    /\ pc = "candidates"
    /\ LET r == detect_candidate_terms(files, unreadable, DOMAIN terms)
       IN  IF r.raised
           THEN /\ Raise
                /\ stdout' = Append(stdout, "Scanning for candidate terms not in glossary...")
                /\ UNCHANGED candidates
           ELSE /\ candidates' = r.value
                /\ stdout' = stdout \o
                     <<"Scanning for candidate terms not in glossary...",
                       IF DOMAIN r.value # {} THEN "Found candidate terms (3+ occurrences):"
                       ELSE "No new candidate terms found.">>
                /\ pc' = "exit"
                /\ exit_code' = 0
                /\ UNCHANGED stderr
    /\ UNCHANGED <<env, vvars, hook, preview, files, terms, supplementary, references, content>>

(* Render that writes what it rendered, before the write step *)
RenderAndWrite ==
    /\ pc = "render"
    /\ content' = generate_glossary_content(terms, references, supplementary,
                                            args.cross_ref)
    /\ files' = [files EXCEPT ![output_path] = File(content')]
    /\ stdout' = Append(stdout, "Generating glossary...")
    /\ pc' = IF args.dry_run THEN "preview" ELSE "write"
    /\ UNCHANGED <<env, vvars, hook, preview, terms, supplementary, references, candidates,
                   stderr, exit_code>>

(* lines 474-483 *)
Render ==
    /\ pc = "render"
    /\ content' = generate_glossary_content(terms, references, supplementary,
                                            args.cross_ref)
    /\ stdout' = Append(stdout, "Generating glossary...")
    /\ pc' = IF args.dry_run THEN "preview" ELSE "write"
    /\ UNCHANGED <<env, vvars, hook, preview, files, terms, supplementary, references, candidates,
                   stderr, exit_code>>

PreviewHead == 50
PreviewTail == 10
PreviewLimit == 60

(* lines 486-494: the text of each print call between the header and the   *)
(* total of the preview                                                    *)
preview_prints(text) ==
    LET Shown(preview_lines) ==
            IF Len(preview_lines) > PreviewLimit
            THEN SubSeq(preview_lines, 1, PreviewHead)
                 \o << <<NL, "... (">> \o str_int(Len(preview_lines) - PreviewLimit)
                        \o <<" lines omitted) ...", NL>> >>
                 \o SubSeq(preview_lines, Len(preview_lines) - PreviewTail + 1,
                           Len(preview_lines))
            ELSE <<text>>
    IN  Shown(split_lines(text))

(* lines 483-496 *)
Preview ==
    /\ pc = "preview"
    /\ stdout' = stdout \o <<"--- Preview ---", "Total lines, terms">>
    /\ preview' = preview_prints(content)
    /\ pc' = "exit"
    /\ exit_code' = 0
    /\ UNCHANGED <<env, vvars, hook, files, locals, stderr>>

(* lines 498-507; write_text() needs the directory of the path *)
Write ==
    /\ pc = "write"
    /\ IF output_path # OutsidePath /\ ~docs_exists
       THEN /\ Raise
            /\ UNCHANGED <<files, stdout>>
       ELSE /\ files' = [files EXCEPT ![output_path] = File(content)]
            /\ stdout' = stdout \o
                 (<<"Wrote terms">> \o
                  (IF args.cross_ref /\ references.some /\ DOMAIN references.value # {}
                   THEN <<"Cross-referenced terms across documentation">> ELSE <<>>)
                  \o <<"Done!">>)
            /\ pc' = "exit"
            /\ exit_code' = 0
            /\ UNCHANGED stderr
    /\ UNCHANGED <<env, vvars, hook, preview, locals>>

MaxRuns == 3

(* the command is run again, with the same command line, on the tree the   *)
(* run before it left: a new process, whose variables start afresh         *)
Rerun ==
    /\ pc = "exit"
    /\ run < MaxRuns
    /\ run' = run + 1
    /\ pc' = "start"
    /\ exit_code' = -1
    /\ terms' = EmptyDict
    /\ supplementary' = <<>>
    /\ references' = None
    /\ candidates' = EmptyDict
    /\ content' = <<>>
    /\ stdout' = <<>>
    /\ preview' = <<>>
    /\ stderr' = <<>>
    /\ UNCHANGED <<docs_exists, files, files0, unreadable, args, vvars, hook>>

(* the state of a process that enters main() *)
StartOfRun ==
    /\ pc = "start"
    /\ exit_code = -1
    /\ run = 1
    /\ terms = EmptyDict
    /\ supplementary = <<>>
    /\ references = None
    /\ candidates = EmptyDict
    /\ content = <<>>
    /\ stdout = <<>>
    /\ preview = <<>>
    /\ stderr = <<>>

(* parser.parse_args(): the flags, and --output absent or a path *)
ArgsSet ==
    [scan_new : BOOLEAN, dry_run : BOOLEAN, cross_ref : BOOLEAN,
     output : {[given |-> FALSE, path |-> <<>>],
               [given |-> TRUE, path |-> OutsidePath]}]

PlainArgs ==
    [scan_new |-> FALSE, dry_run |-> FALSE, cross_ref |-> FALSE,
     output |-> [given |-> FALSE, path |-> <<>>]]

(* a tree that holds the given documents and nothing else *)
Tree(glossary, a, b, c, out) ==
    [p \in Paths |->
        CASE p = glossary_path -> glossary
          [] p = <<"a.md">> -> a
          [] p = <<"b.md">> -> b
          [] p = <<"c.md">> -> c
          [] p = OutsidePath -> out
          [] OTHER -> NoFile]

(***************************************************************************)
(* Input documents                                                         *)
(***************************************************************************)

SectionLine(x) == <<"#", "#", " ">> \o x
TermLine(name) == <<"#", "#", "#", " ">> \o name

Api == <<"A", "p", "i">>
Go == <<"G", "o">>
Zed == <<"Z", "e", "d">>
Box == <<"B", "o", "x">>

(* a glossary written by hand, with a reserved section *)
GlossaryHand ==
    join_lines(<<SectionLine(<<"G">>), TermLine(Go), <<"x">>,
                 SectionLine(<<"Common Abbreviations">>), <<"z">> >>)

(* a glossary written by hand, without a reserved section *)
GlossaryPlain ==
    join_lines(<<SectionLine(<<"A">>), <<>>, TermLine(Api), <<>>, <<"y">> >>)

Glossaries == {NoFile, File(GlossaryHand), File(GlossaryPlain)}

Documents == {File(Go \o <<" ">> \o Api), File(<<"x">>)}

(***************************************************************************)
(* Spec: runs of the command, with every flag combination, on small trees, *)
(* all of whose documents can be read.                                     *)
(***************************************************************************)

InitTree ==
    /\ docs_exists \in BOOLEAN
    /\ \E g \in Glossaries, a \in Documents,
          out \in {NoFile, File(<<"o", "l", "d">>)} :
          files = IF docs_exists THEN Tree(g, a, NoFile, NoFile, out)
                  ELSE Tree(NoFile, NoFile, NoFile, NoFile, out)
    /\ files0 = files
    /\ args \in ArgsSet

Init ==
    /\ InitTree
    /\ unreadable = {}
    /\ StartOfRun
    /\ ValidatorIdle
    /\ HookIdle

Next ==
    \/ CheckDocsDir
    \/ ParseGlossary
    \/ ParseSupplementary
    \/ ScanUsage
    \/ DetectCandidates
    \/ Render
    \/ Preview
    \/ Write
    \/ Rerun

Spec == Init /\ [][Next]_vars

(***************************************************************************)
(* Properties of the runs                                                  *)
(***************************************************************************)

(* the names and definitions of a term mapping, by key *)
TermSet(d) == [k \in DOMAIN d |-> <<d[k].name, d[k].definition>>]

(* the run has written its output *)
Wrote == pc = "exit" /\ Len(stdout) > 0 /\ stdout[Len(stdout)] = "Done!"

(* C1: round trip of parse and render.  When a run without --cross-ref is  *)
(* about to write the document D it rendered from terms, parsing D gives   *)
(* the names and definitions of terms, and parsing the re-rendering of     *)
(* that parse gives them again.                                            *)
C1_RoundTrip ==
    (pc = "write" /\ ~args.cross_ref) =>
        LET D == File(content)
            once == parse_existing_glossary(D)
            kept == parse_supplementary_sections(D)
            rendered == generate_glossary_content(once, None, kept, FALSE)
            again == parse_existing_glossary(File(rendered))
        IN  After(<<once, kept, rendered, again>>,
                  /\ TermSet(once) = TermSet(terms)
                  /\ TermSet(again) = TermSet(once))

(* C2: regeneration is idempotent.  From the second run on, the document a *)
(* run is about to write has the names, the definitions and the            *)
(* supplementary text of the document the run before it left.              *)
C2_Idempotent ==
    (pc = "write" /\ run >= 2) =>
        /\ TermSet(parse_existing_glossary(File(content)))
             = TermSet(parse_existing_glossary(files[output_path]))
        /\ parse_supplementary_sections(File(content))
             = parse_supplementary_sections(files[output_path])

(* C9: without the docs directory a run reports the error and exits with   *)
(* status 1 before it parses, scans or writes: no step after the test has  *)
(* run, nothing was printed to stdout, main's variables hold nothing and   *)
(* no path, the --output path included, has changed.                       *)
C9_MissingDocsDirIsFatal ==
    ~docs_exists =>
        /\ pc \in {"start", "exit"}
        /\ files = files0
        /\ stdout = <<>>
        /\ terms = EmptyDict /\ ~references.some /\ content = <<>>
        /\ pc = "exit" =>
              /\ exit_code = 1
              /\ stderr = <<"Error: Documentation directory not found">>

C9_Witness ==
    /\ ~docs_exists
    /\ pc = "exit"
    /\ args.output.given
    /\ ~args.dry_run /\ ~args.scan_new

(* the document generate_glossary_content renders from no term *)
ZeroTermDocument ==
    join_lines(<<FRONTMATTER, <<>>, IntroLine1, IntroLine2, <<>>,
                 RULE, <<>>, <<TotalTermsMark, " ", "0", "+">>, <<>>,
                 FooterLine1, FooterLine2, <<>> >>)

(* C10: a missing glossary is no error.  While the docs directory exists   *)
(* and holds no glossary file the run does not raise, terms is empty,      *)
(* supplementary is empty, an exit is with status 0, and what a writing    *)
(* run wrote is the glossary of zero terms.                                *)
C10_MissingGlossaryIsNoError ==
    /\ (docs_exists /\ ~files[glossary_path].exists) =>
          /\ pc # "raised"
          /\ terms = EmptyDict
          /\ supplementary = <<>>
          /\ pc = "exit" => exit_code = 0
          /\ Wrote => files[output_path] = File(ZeroTermDocument)
    /\ (docs_exists /\ ~files0[glossary_path].exists /\ run = 1 /\ Wrote) =>
          /\ exit_code = 0
          /\ terms = EmptyDict
          /\ supplementary = <<>>
          /\ files[output_path] = File(ZeroTermDocument)

C10_Witness ==
    /\ docs_exists
    /\ ~files0[glossary_path].exists
    /\ run = 1
    /\ Wrote
    /\ ~args.output.given
    /\ files[glossary_path] = File(ZeroTermDocument)

(***************************************************************************)
(* SpecTerms: one plain run (no flag) on every glossary of at most         *)
(* MaxLines lines drawn from TermsLines: sections and terms in any order.  *)
(***************************************************************************)

MaxLines == 5

SeqsUpTo(S, n) == UNION {[1..k -> S] : k \in 0..n}

TermsLines ==
    {SectionLine(<<"A">>), SectionLine(<<"B">>),
     SectionLine(<<"Common Abbreviations">>),
     TermLine(Zed), TermLine(<<"a", "p", "i">>), TermLine(Box), <<"x">>}

(* a plain run on a glossary made of the lines of head and of at most      *)
(* MaxLines lines of lineSet                                               *)
InitPlainRun(head, lineSet) ==
    /\ docs_exists = TRUE
    /\ \E ls \in SeqsUpTo(lineSet, MaxLines) :
          files = Tree(File(join_lines(head \o ls)), NoFile, NoFile, NoFile, NoFile)
    /\ files0 = files
    /\ args = PlainArgs
    /\ unreadable = {}
    /\ StartOfRun
    /\ ValidatorIdle
    /\ HookIdle

InitTerms == InitPlainRun(<<>>, TermsLines)

NextPlain ==
    \/ CheckDocsDir
    \/ ParseGlossary
    \/ ParseSupplementary
    \/ Render
    \/ Write

SpecTerms == InitTerms /\ [][NextPlain]_vars

(* a line that is a reserved '##' header *)
IsReservedHeader(line) ==
    LET s == strip(line)
    IN  non_term_match(s) /\ strip(SubSeq(s, 4, Len(s))) \in NON_TERM_SECTIONS

(* the lines of a rendered document before its supplementary block *)
TermRegion(lines) ==
    LET first == IF \E i \in 1..Len(lines) : IsReservedHeader(lines[i])
                 THEN CHOOSE i \in 1..Len(lines) :
                        /\ IsReservedHeader(lines[i])
                        /\ \A j \in 1..(i - 1) : ~IsReservedHeader(lines[j])
                 ELSE Len(lines) + 1
    IN  SubSeq(lines, 1, first - 1)

EmittedSection(line) == StartsAt(line, 1, <<"#", "#", " ">>)
EmittedTerm(line) == StartsAt(line, 1, <<"#", "#", "#", " ">>)

(* C4: alphabetical order of the rendered output.  In every rendered       *)
(* document the '## <section>' headers are strictly ascending (so no       *)
(* section is emitted twice) and between two section headers the           *)
(* '### <name>' headers are ascending in the lowercased name.              *)
C4_AlphabeticalOrder ==
    content # <<>> =>
        LET L == TermRegion(split_lines(content))
            H == {i \in 1..Len(L) : EmittedSection(L[i])}
            T == {i \in 1..Len(L) : EmittedTerm(L[i])}
        IN  /\ \A i, j \in H :
                  i < j => StrLess(SubSeq(L[i], 4, Len(L[i])),
                                   SubSeq(L[j], 4, Len(L[j])))
            /\ \A i, j \in T :
                  (i < j /\ ~\E h \in H : i < h /\ h < j) =>
                      ~StrLess(lower(SubSeq(L[j], 5, Len(L[j]))),
                               lower(SubSeq(L[i], 5, Len(L[i]))))

(* two sections given in the glossary in descending order, the second of   *)
(* them with two terms given in descending order                           *)
C4_Witness ==
    /\ pc = "write"
    /\ split_lines(files0[glossary_path].content) =
          <<SectionLine(<<"B">>), TermLine(Box), SectionLine(<<"A">>),
            TermLine(Zed), TermLine(<<"a", "p", "i">>)>>
    /\ Cardinality(DOMAIN terms) = 3

(* C5: section invariant of the parser.  Every Term the parser returned    *)
(* has as its section one uppercase letter, the letter of a '## <Letter>'  *)
(* header that stands before the term's '###' header in the document.      *)
C5_SectionIsLetter ==
    \A k \in DOMAIN terms :
        /\ Len(terms[k].section) = 1
        /\ terms[k].section[1] \in UpperCase
        /\ LET lines == split_lines(files0[glossary_path].content)
           IN  \E i, j \in 1..Len(lines) :
                  /\ i < j
                  /\ strip(lines[i]) = SectionLine(terms[k].section)
                  /\ strip(lines[j]) = TermLine(terms[k].name)

(***************************************************************************)
(* SpecSupp: one plain run on every glossary that opens with a front-      *)
(* matter block and goes on with at most MaxLines lines of SuppLines:      *)
(* reserved and alphabetical headers, text, footer phrases, rules.         *)
(***************************************************************************)

FrontMatterBlock == <<RULE, <<"title: \"Glossary\"">>, RULE>>

SuppLines ==
    {SectionLine(<<"Common Abbreviations">>), SectionLine(<<"A">>),
     <<"y">>, <<"y", " ", TotalTermsMark, " ", "z">>,
     <<TotalTermsMark, " ", "1", "+">>, RULE, <<>>}

InitSupp == InitPlainRun(FrontMatterBlock, SuppLines)

SpecSupp == InitSupp /\ [][NextPlain]_vars

(* the lines of the reserved sections of a document: from a reserved '##'  *)
(* header up to the next alphabetical section header                       *)
ReservedLines(lines) ==
    LET Alphabetical(i) == section_match(strip(lines[i]))
        Inside(i) == /\ ~Alphabetical(i)
                     /\ \E h \in 1..i :
                            /\ IsReservedHeader(lines[h])
                            /\ \A j \in (h + 1)..i : ~Alphabetical(j)
        kept == SelectSeq(Indices(lines), Inside)
    IN  [k \in 1..Len(kept) |-> lines[kept[k]]]

(* a line of the trailing footer: blank, a rule, or one that opens with a  *)
(* footer phrase                                                           *)
IsFooterLine(line) ==
    LET s == strip(line)
    IN  \/ s = <<>>
        \/ s = RULE
        \/ s[1] \in {TotalTermsMark, AdditionalMark, RepositoryMark}

DropTrailingFooter(lines) ==
    SubSeq(lines, 1, LastOf(SelectSeq(Indices(lines),
                                      LAMBDA i : ~IsFooterLine(lines[i]))))

(* block is a run of consecutive lines of lines *)
HasBlock(lines, block) ==
    \E off \in 0..(Len(lines) - Len(block)) :
        \A i \in 1..Len(block) : lines[off + i] = block[i]

(* the lines the input glossary holds after its front-matter block *)
BodyLines == SubSeq(split_lines(files0[glossary_path].content),
                    Len(FrontMatterBlock) + 1,
                    Len(split_lines(files0[glossary_path].content)))

(* C3: preservation of the supplementary sections.  The lines of the       *)
(* reserved sections of the input glossary, less its trailing footer,      *)
(* stand unchanged and together in the regenerated document.               *)
C3_SupplementaryPreserved ==
    (pc \in {"write", "exit"} /\ content # <<>>) =>
        HasBlock(split_lines(content),
                 DropTrailingFooter(ReservedLines(BodyLines)))

(***************************************************************************)
(* SpecScan: one --cross-ref run on a glossary of three terms and one      *)
(* document made of at most MaxFrags fragments: the names of the terms in  *)
(* either case, a letter that lengthens a word, a space, a backtick.       *)
(***************************************************************************)

MaxFrags == 4

CPlus == <<"C", "+">>

GlossaryScan ==
    join_lines(<<SectionLine(<<"C">>), <<>>, TermLine(CPlus), <<>>, <<"y">>, <<>>,
                 SectionLine(<<"G">>), <<>>, TermLine(Go), <<>>, <<"y">>, <<>>,
                 SectionLine(<<"R">>), <<>>, TermLine(<<"R">>), <<>>, <<"y">> >>)

ScanFrags == {Go, <<"G", "O">>, CPlus, <<"R">>, <<"x">>, <<" ">>, <<BT>>}


InitScan ==
    /\ docs_exists = TRUE
    /\ \E fs \in SeqsUpTo(ScanFrags, MaxFrags) :
          files = Tree(File(GlossaryScan), File(Concat(fs)), NoFile, NoFile, NoFile)
    /\ files0 = files
    /\ args = [PlainArgs EXCEPT !.cross_ref = TRUE]
    /\ unreadable = {}
    /\ StartOfRun
    /\ ValidatorIdle
    /\ HookIdle

NextScan ==
    \/ CheckDocsDir
    \/ ParseGlossary
    \/ ParseSupplementary
    \/ ScanUsage
    \/ Render
    \/ Write

SpecScan == InitScan /\ [][NextScan]_vars

(* w stands at position i of s, whatever the case of its letters *)
OccursAt(s, i, w) ==
    /\ i + Len(w) - 1 <= Len(s)
    /\ lower(SubSeq(s, i, i + Len(w) - 1)) = lower(w)

(* the occurrence of w at i is a whole word: no word character touches it *)
WholeWordAt(s, i, w) ==
    /\ OccursAt(s, i, w)
    /\ i = 1 \/ s[i - 1] \notin WordChars
    /\ i + Len(w) > Len(s) \/ s[i + Len(w)] \notin WordChars

(* the document at path has a Reference for the term of key k *)
HasReference(k, path) ==
    /\ k \in DOMAIN references.value
    /\ \E n \in 1..Len(references.value[k]) :
           references.value[k][n].display_path = display_of(path)

(* C6: whole-word matching in the usage scanner.  After the scan, a term   *)
(* of base name W has a Reference to the document when W stands in it as   *)
(* a whole word outside code, and has none when W stands in it only as a   *)
(* part of a longer word.                                                  *)
C6_WholeWordMatching ==
    references.some =>
        \A k \in DOMAIN terms :
            LET W == base_name_of(terms[k].name)
                s == strip_inline(strip_fenced(files[<<"a.md">>].content, 1), 1)
                whole == \E i \in 1..Len(s) : WholeWordAt(s, i, W)
                occurs == \E i \in 1..Len(s) : OccursAt(s, i, W)
            IN  /\ whole => HasReference(k, <<"a.md">>)
                /\ (occurs /\ ~whole) => ~HasReference(k, <<"a.md">>)

(***************************************************************************)
(* SpecCandidates: one --scan-new run on a glossary that knows Api and on  *)
(* three documents: a.md and b.md made of at most MaxBold fragments, each  *)
(* an emphasized phrase or a space, c.md absent or with one phrase.        *)
(***************************************************************************)

MaxBold == 2

Foo == <<"F", "o", "o">>

Bold(phrase) == BOLD \o phrase \o BOLD

BoldFrags == {Bold(Foo), Bold(Api), <<" ">>}

InitCandidates ==
    /\ docs_exists = TRUE
    /\ \E a \in SeqsUpTo(BoldFrags, MaxBold), b \in SeqsUpTo(BoldFrags, MaxBold),
          c \in {NoFile, File(Bold(Foo))} :
          files = Tree(File(GlossaryPlain), File(Concat(a)), File(Concat(b)), c, NoFile)
    /\ files0 = files
    /\ args = [PlainArgs EXCEPT !.scan_new = TRUE]
    /\ unreadable = {}
    /\ StartOfRun
    /\ ValidatorIdle
    /\ HookIdle

NextCandidates ==
    \/ CheckDocsDir
    \/ ParseGlossary
    \/ ParseSupplementary
    \/ ScanUsage
    \/ DetectCandidates

SpecCandidates == InitCandidates /\ [][NextCandidates]_vars

(* the documents a scan reads: those that exist and are not excluded *)
ScannedPaths ==
    {DocPaths[i] : i \in {n \in 1..Len(DocPaths) :
        files[DocPaths[n]].exists /\ path_name(DocPaths[n]) \notin EXCLUDED_FILES}}

(* the eligible phrases emphasized in the document at path *)
EmphasizedIn(path) ==
    DOMAIN CountMatches(EmptyDict,
                        find_bold(strip_fenced(files[path].content, 1), 1),
                        DOMAIN terms, 1)

(* the number of distinct documents that emphasize phrase *)
DocumentCount(phrase) ==
    Cardinality({p \in ScannedPaths : phrase \in EmphasizedIn(p)})

(* C7: the candidate threshold counts distinct documents.  At the end of   *)
(* a --scan-new run the candidates are the eligible phrases emphasized in  *)
(* 3 or more distinct documents, each with the number of those documents.  *)
C7_ThresholdCountsDocuments ==
    (pc = "exit" /\ args.scan_new /\ exit_code = 0) =>
        LET phrases == UNION {EmphasizedIn(p) : p \in ScannedPaths}
            kept == {ph \in phrases : DocumentCount(ph) >= 3}
        IN  candidates = [ph \in kept |-> DocumentCount(ph)]

(***************************************************************************)
(* SpecFaults: the runs of Spec on trees of two documents where            *)
(* read_text() fails on any of the glossary and the documents.             *)
(***************************************************************************)

InitFaults ==
    /\ docs_exists = TRUE
    /\ \E g \in Glossaries, a \in Documents :
          files = Tree(g, a, File(Api), NoFile, NoFile)
    /\ files0 = files
    /\ args \in ArgsSet
    /\ unreadable \in SUBSET {glossary_path, <<"a.md">>, <<"b.md">>}
    /\ StartOfRun
    /\ ValidatorIdle
    /\ HookIdle

SpecFaults == InitFaults /\ [][Next]_vars

(* the tree without the documents that cannot be read *)
ReadableFiles == [p \in Paths |-> IF p \in unreadable THEN NoFile ELSE files[p]]

(* C8: a document that cannot be read is skipped.  When the glossary can   *)
(* be read, no run ends with an uncaught error, and the References and     *)
(* the candidates are those of the documents that can be read.             *)
C8_ReadFailuresIsolated ==
    glossary_path \notin unreadable =>
        /\ pc # "raised"
        /\ references.some =>
               references.value =
                   scan_docs_for_term_usage(ReadableFiles, {}, terms).value
        /\ (pc = "exit" /\ args.scan_new /\ exit_code = 0) =>
               candidates =
                   detect_candidate_terms(ReadableFiles, {}, DOMAIN terms).value

(***************************************************************************)
(* Properties of the flags                                                 *)
(***************************************************************************)

(* the run printed line *)
Printed(line) == \E i \in 1..Len(stdout) : stdout[i] = line

(* C11: --scan-new replaces regeneration.  In every run with --scan-new    *)
(* the glossary is never rendered and no file is written, and the run ends *)
(* after the candidate detector ran, with exit status 0.                   *)
C11_ScanNewReplacesRegeneration ==
    args.scan_new =>
        /\ pc \notin {"render", "preview", "write"}
        /\ content = <<>>
        /\ files = files0
        /\ pc \in {"exit", "raised"} =>
              /\ exit_code = 0
              /\ Printed("Scanning for candidate terms not in glossary...")


(* what the preview shows of text: its first 50 and its last 10 lines when *)
(* it has more than 60 lines, the whole text otherwise                     *)
ShowsHeadAndTail(shown, text) ==
    LET all == split_lines(text)
    IN  IF Len(all) > 60
        THEN /\ Len(shown) = 61
             /\ SubSeq(shown, 1, 50) = SubSeq(all, 1, 50)
             /\ SubSeq(shown, 52, 61) = SubSeq(all, Len(all) - 9, Len(all))
        ELSE shown = <<text>>

(* C12: --dry-run never writes.  In every run with --dry-run no file of    *)
(* the tree changes and the exit status is 0; when the run regenerates     *)
(* (no --scan-new) the glossary is rendered and the preview shows its      *)
(* first 50 and last 10 lines when it has more than 60 lines, and the      *)
(* whole content otherwise.                                                *)
C12_DryRunNeverWrites ==
    args.dry_run =>
        /\ files = files0
        /\ pc \in {"exit", "raised"} =>
              /\ exit_code = 0
              /\ ~args.scan_new =>
                    /\ Printed("Generating glossary...")
                    /\ ShowsHeadAndTail(preview, content)


(***************************************************************************)
(* SpecRefs: one --cross-ref run on a glossary with a term whose name has  *)
(* a parenthetical qualifier, a term whose name ends with a non-word       *)
(* character and a term of one letter.  a.md is made of at most            *)
(* MaxMentions fragments; b.md, sub/d.md and the two changelogs are absent *)
(* or mention Go.                                                          *)
(***************************************************************************)

MaxMentions == 3

GoQualified == Go \o <<" ", "(", "l", "a", "n", "g", ")">>

GlossaryRefs ==
    join_lines(<<SectionLine(<<"C">>), <<>>, TermLine(CPlus), <<>>, <<"y">>, <<>>,
                 SectionLine(<<"G">>), <<>>, TermLine(GoQualified), <<>>, <<"y">>, <<>>,
                 SectionLine(<<"R">>), <<>>, TermLine(<<"R">>), <<>>, <<"y">> >>)

RefFrags == {Go, <<"G", "O">>, CPlus, <<" ">>}

InitRefs ==
    /\ docs_exists = TRUE
    /\ \E fs \in SeqsUpTo(RefFrags, MaxMentions),
          b \in {NoFile, File(Go)}, d \in {NoFile, File(Go)},
          log \in {NoFile, File(Go)}, sublog \in {NoFile, File(Go)} :
          files = [Tree(File(GlossaryRefs), File(Concat(fs)), b, NoFile, NoFile)
                     EXCEPT ![<<"sub", "d.md">>] = d,
                            ![<<"changelog.md">>] = log,
                            ![<<"sub", "changelog.md">>] = sublog]
    /\ files0 = files
    /\ args = [PlainArgs EXCEPT !.cross_ref = TRUE]
    /\ unreadable = {}
    /\ StartOfRun
    /\ ValidatorIdle
    /\ HookIdle

SpecRefs == InitRefs /\ [][NextScan]_vars

(* the display paths of the References of key k, in the order of the list *)
DisplayPaths(refs, k) == [n \in 1..Len(refs[k]) |-> refs[k][n].display_path]

(* no element of s stands in it twice *)
NoRepeat(s) == \A m, n \in 1..Len(s) : s[m] = s[n] => m = n

(* the documents the scanner reads *)
ScannedDocs ==
    {p \in Paths \ {OutsidePath} :
        files[p].exists /\ path_name(p) \notin EXCLUDED_FILES}

(* the orders in which the scanner can meet the documents it reads *)
ScanOrders ==
    {o \in [1..Cardinality(ScannedDocs) -> ScannedDocs] :
        \A m, n \in DOMAIN o : o[m] = o[n] => m = n}

(* the mapping the scanner builds when it meets the documents in order o *)
RECURSIVE ScanInOrder(_, _)
ScanInOrder(o, refs) ==
    IF o = <<>> THEN refs
    ELSE ScanInOrder(Tail(o),
                     ScanFile(refs, Head(o), files[Head(o)].content, terms))

(* C13: Reference uniqueness.  In the mapping the scanner returns, no two  *)
(* References of a term have the same display path, however often the      *)
(* term is mentioned in a document and in whatever order the documents     *)
(* are scanned.                                                            *)
C13_ReferencesUnique ==
    references.some =>
        /\ \A k \in DOMAIN references.value :
               NoRepeat(DisplayPaths(references.value, k))
        /\ \A o \in ScanOrders :
               \A k \in DOMAIN ScanInOrder(o, EmptyDict) :
                   NoRepeat(DisplayPaths(ScanInOrder(o, EmptyDict), k))

(* Go is mentioned twice in a.md and once in b.md and in sub/d.md, and the  *)
(* term has one Reference for each of the three documents                  *)
C13_Witness ==
    /\ references.some
    /\ files[<<"a.md">>].content = Go \o <<" ">> \o <<"G", "O">>
    /\ files[<<"b.md">>].exists /\ files[<<"sub", "d.md">>].exists
    /\ lower(GoQualified) \in DOMAIN references.value
    /\ Len(references.value[lower(GoQualified)]) = 3


(* the text of the document at path without its code *)
CodeStripped(path) == strip_inline(strip_fenced(files[path].content, 1), 1)

(* C14: scanner coverage and exclusion.  After the scan, the glossary      *)
(* document and the documents named changelog.md are References of no      *)
(* term, a term whose base name has fewer than 2 characters has no         *)
(* Reference, and any other term has a Reference to any other document     *)
(* exactly when its base name stands in the code-stripped text of the      *)
(* document as a whole word, whatever the case of its letters.             *)
C14_CoverageAndExclusion ==
    references.some =>
        \A k \in DOMAIN terms :
            \A p \in {q \in Paths \ {OutsidePath} : files[q].exists} :
                LET W == base_name_of(terms[k].name)
                    s == CodeStripped(p)
                IN  IF p = glossary_path \/ path_name(p) = "changelog.md"
                       \/ Len(W) < 2
                    THEN ~HasReference(k, p)
                    ELSE HasReference(k, p) <=>
                             \E i \in 1..Len(s) : WholeWordAt(s, i, W)


(***************************************************************************)
(* SpecCap: generate_glossary_content on the terms of GlossaryRefs, with   *)
(* its references argument drawn from: absent, an empty mapping, and the   *)
(* mappings that give the term Go (lang) a list of References to any set   *)
(* of the paths of DocPaths, in ascending or descending order, and give    *)
(* the term C+ one Reference or none.  A run starts at the call.           *)
(***************************************************************************)

RefTo(path) ==
    [file_path |-> <<"docs", "/">> \o display_of(path),
     display_path |-> display_of(path)]

RefLists ==
    {[i \in 1..Len(sorted_refs(S)) |->
         IF up THEN sorted_refs(S)[i]
         ELSE sorted_refs(S)[Len(sorted_refs(S)) + 1 - i]] :
       S \in SUBSET {RefTo(DocPaths[i]) : i \in 1..Len(DocPaths)},
       up \in BOOLEAN}

RefInputs ==
    {None, Some(EmptyDict)}
    \cup {Some(DictSet(others, lower(GoQualified), refs)) :
            others \in {EmptyDict,
                        DictSet(EmptyDict, lower(CPlus), <<RefTo(<<"a.md">>)>>)},
            refs \in RefLists}

InitCap ==
    /\ docs_exists = TRUE
    /\ files = Tree(File(GlossaryRefs), NoFile, NoFile, NoFile, NoFile)
    /\ files0 = files
    /\ args \in {a \in ArgsSet : ~a.scan_new}
    /\ unreadable = {}
    /\ pc = "render"
    /\ exit_code = -1
    /\ run = 1
    /\ terms = parse_existing_glossary(files[glossary_path])
    /\ supplementary = parse_supplementary_sections(files[glossary_path])
    /\ references \in RefInputs
    /\ candidates = EmptyDict
    /\ content = <<>>
    /\ stdout = <<>>
    /\ preview = <<>>
    /\ stderr = <<>>
    /\ ValidatorIdle
    /\ HookIdle

NextCap ==
    \/ Render
    \/ Preview
    \/ Write

SpecCap == InitCap /\ [][NextCap]_vars

ReferencedIn == <<"*Referenced in: ">>

(* the References the renderer is given for the term of key k *)
GivenRefs(k) ==
    IF args.cross_ref /\ references.some /\ k \in DOMAIN references.value
    THEN references.value[k] ELSE <<>>

(* the "Referenced in" line the claim describes for the display paths D:   *)
(* the 5 smallest in ascending order, and how many more                    *)
CappedLine(D) ==
    LET below(d) == Cardinality({e \in D : path_rank(e) < path_rank(d)})
        first == [i \in 1..(IF Cardinality(D) < 5 THEN Cardinality(D) ELSE 5) |->
                     CHOOSE d \in D : below(d) = i - 1]
        links == [i \in 1..Len(first) |->
                     <<"[">> \o first[i] \o <<"](">> \o first[i] \o <<")">>]
    IN  ReferencedIn \o JoinRange(<<", ">>, links, 1, Len(links))
        \o (IF Cardinality(D) > 5
            THEN <<" and ">> \o str_int(Cardinality(D) - 5) \o <<" more*">>
            ELSE <<"*">>)

(* the indices of the "Referenced in" lines of the rendered block of the   *)
(* term whose header is at line h: from h to the next header or rule       *)
ReferencedLines(lines, h) ==
    LET end == OrPastEnd(FirstOf(SelectSeq(Indices(lines),
                   LAMBDA n : /\ n > h
                              /\ \/ EmittedSection(lines[n])
                                 \/ EmittedTerm(lines[n])
                                 \/ lines[n] = RULE)), lines, h + 1)
    IN  {n \in h..(end - 1) : StartsAt(lines[n], 1, ReferencedIn)}

(* C15: cross-reference rendering cap.  In the rendered content, a term    *)
(* with n >= 1 references given under cross_ref has exactly one            *)
(* "Referenced in" line, after its definition and one blank line, which    *)
(* lists the min(n, 5) smallest display paths in ascending order and then  *)
(* "and n-5 more" iff n > 5; a term with no reference given, or rendered   *)
(* without cross_ref or without a mapping, has no such line.               *)
C15_CrossRefCap ==
    content # <<>> =>
        LET lines == split_lines(content)
        IN  \A k \in DOMAIN terms :
                LET h == FirstOf(SelectSeq(Indices(lines),
                             LAMBDA n : lines[n] = TermLine(terms[k].name)))
                    after == h + 2 + Len(split_lines(terms[k].definition))
                    given == GivenRefs(k)
                IN  /\ h # 0
                    /\ IF given # <<>>
                       THEN /\ ReferencedLines(lines, h) = {after + 1}
                            /\ lines[after] = <<>>
                            /\ lines[after + 1] =
                                   CappedLine({given[i].display_path :
                                                  i \in 1..Len(given)})
                       ELSE ReferencedLines(lines, h) = {}

(* the term Go (lang) was rendered with 7 references given in descending   *)
(* order, and its line ends with "and 2 more"                              *)
C15_Witness ==
    /\ content # <<>>
    /\ args.cross_ref
    /\ Len(GivenRefs(lower(GoQualified))) = 7
    /\ GivenRefs(lower(GoQualified))[1].display_path = display_of(<<"sub", "d.md">>)
    /\ \E n \in 1..Len(split_lines(content)) :
           /\ StartsAt(split_lines(content)[n], 1, ReferencedIn)
           /\ split_lines(content)[n][Len(split_lines(content)[n])] = " more*"


(* the link the renderer writes for the document at path *)
LinkTo(path) ==
    <<"[">> \o display_of(path) \o <<"](">> \o display_of(path) \o <<")">>

(* the rendered block of the term of key k has a "Referenced in" line      *)
(* that names the document at path                                         *)
RenderedReference(k, path) ==
    LET lines == split_lines(content)
        h == FirstOf(SelectSeq(Indices(lines),
                 LAMBDA n : lines[n] = TermLine(terms[k].name)))
    IN  /\ h # 0
        /\ \E n \in ReferencedLines(lines, h) :
               \E j \in 1..Len(lines[n]) : StartsAt(lines[n], j, LinkTo(path))

(* C16: parenthetical terms are cross-referenced end to end.  Every term   *)
(* is stored under its lowercased full name, the scanner stores            *)
(* References under keys of terms only, a document that mentions Go as a   *)
(* whole word outside code is a Reference of the term Go (lang) under the  *)
(* key "go (lang)", and the rendered block of that term names every        *)
(* document the scanner recorded for it.                                   *)
C16_ParentheticalEndToEnd ==
    /\ \A k \in DOMAIN terms : k = lower(terms[k].name)
    /\ references.some =>
          /\ DOMAIN references.value \subseteq DOMAIN terms
          /\ \A p \in ScannedDocs :
                /\ (\E i \in 1..Len(CodeStripped(p)) :
                        WholeWordAt(CodeStripped(p), i, Go))
                       => HasReference(lower(GoQualified), p)
                /\ (content # <<>> /\ HasReference(lower(GoQualified), p))
                       => RenderedReference(lower(GoQualified), p)

(* b.md mentions Go and a.md does not; the term Go (lang) has a Reference  *)
(* to b.md and its rendered block names b.md                               *)
C16_Witness ==
    /\ content # <<>>
    /\ references.some
    /\ ~HasReference(lower(GoQualified), <<"a.md">>)
    /\ HasReference(lower(GoQualified), <<"b.md">>)
    /\ RenderedReference(lower(GoQualified), <<"b.md">>)


(***************************************************************************)
(* SpecSections: one plain run on every glossary of at most MaxLines       *)
(* lines, each of them a letter header, a reserved header, a '##' header   *)
(* of another name, the header of the term Api or of the term API, or one  *)
(* of two lines of text.                                                   *)
(***************************************************************************)

InitSections ==
    InitPlainRun(<<>>, {SectionLine(<<"A">>),
                        SectionLine(<<"Common Abbreviations">>),
                        SectionLine(<<"Notes">>),
                        TermLine(Api), TermLine(<<"A", "P", "I">>),
                        <<"x">>, <<"z">>})

SpecSections == InitSections /\ [][NextPlain]_vars

(* the lines of the glossary the run read *)
DocLines == split_lines(files0[glossary_path].content)

ReservedNames ==
    {<<"Metadata Tags Reference">>, <<"Common Abbreviations">>,
     <<"Tool Names Quick Reference">>}

(* line i of L is a '## <Letter>' header *)
LetterHeaderAt(L, i) == section_match(strip(L[i]))

(* line i of L is a '## <name>' header with a reserved name *)
ReservedHeaderAt(L, i) ==
    /\ StartsAt(strip(L[i]), 1, <<"#", "#", " ">>)
    /\ strip(SubSeq(strip(L[i]), 4, Len(strip(L[i])))) \in ReservedNames

(* line i of L is a '##' or a '###' header *)
HeaderAt(L, i) == non_term_match(strip(L[i])) \/ term_match(strip(L[i]))

(* line i of L stands after a reserved header, with no letter header       *)
(* between the two                                                         *)
InReservedSection(L, i) ==
    \E r \in 1..(i - 1) :
        /\ ReservedHeaderAt(L, r)
        /\ \A m \in (r + 1)..(i - 1) : ~LetterHeaderAt(L, m)

(* the '###' headers of L outside its reserved sections *)
TermHeaders(L) ==
    {i \in 1..Len(L) : term_match(strip(L[i])) /\ ~InReservedSection(L, i)}

NameAt(L, i) == strip(SubSeq(strip(L[i]), 5, Len(strip(L[i]))))

(* the letter of the last letter header before line i, or the empty text *)
SectionAt(L, i) ==
    LET h == LastOf(SelectSeq(Indices(L), LAMBDA m : m < i /\ LetterHeaderAt(L, m)))
    IN  IF h = 0 THEN <<>> ELSE <<strip(L[h])[4]>>

(* the text between the header at line i and the next header, stripped *)
DefinitionAt(L, i) ==
    LET next == OrPastEnd(FirstOf(SelectSeq(Indices(L),
                    LAMBDA m : m > i /\ HeaderAt(L, m))), L, i + 1)
    IN  strip(JoinRange(<<NL>>, L, i + 1, next - 1))

(* the last header of L outside reserved sections whose name is k when its *)
(* case is ignored                                                         *)
LastHeaderOf(L, k) ==
    LastOf(SelectSeq(Indices(L),
                     LAMBDA m : m \in TermHeaders(L) /\ lower(NameAt(L, m)) = k))

(* C17: duplicate terms, last occurrence wins.  After the parse, the Terms *)
(* are those of the '###' headers outside reserved sections, one for the   *)
(* headers whose names are equal when case is ignored, and the name, the   *)
(* definition and the section of a Term are those of the last such header. *)
C17_LastOccurrenceWins ==
    pc \notin {"start", "parse"} =>
        /\ DOMAIN terms = {lower(NameAt(DocLines, i)) : i \in TermHeaders(DocLines)}
        /\ \A k \in DOMAIN terms :
               terms[k] =
                   [name |-> NameAt(DocLines, LastHeaderOf(DocLines, k)),
                    definition |-> DefinitionAt(DocLines, LastHeaderOf(DocLines, k)),
                    section |-> SectionAt(DocLines, LastHeaderOf(DocLines, k))]

(* Api is defined before any section as x, and API under A as z: one Term, *)
(* named API, with definition z and section A                              *)
C17_Witness ==
    /\ pc = "render"
    /\ DocLines = <<TermLine(Api), <<"x">>, SectionLine(<<"A">>),
                    TermLine(<<"A", "P", "I">>), <<"z">> >>
    /\ DOMAIN terms = {<<"a", "p", "i">>}
    /\ terms[<<"a", "p", "i">>] =
           [name |-> <<"A", "P", "I">>, definition |-> <<"z">>, section |-> <<"A">>]


(* the first reserved header after line h of L when no other header stands *)
(* between the two, or 0                                                   *)
ReservedHeaderAfter(L, h) ==
    FirstOf(SelectSeq(Indices(L),
                      LAMBDA r : /\ r > h
                                 /\ ReservedHeaderAt(L, r)
                                 /\ \A m \in (h + 1)..(r - 1) : ~HeaderAt(L, m)))

(* C20: non-term sections produce no Terms.  After the parse every Term    *)
(* has the name of a '###' header that stands outside the reserved         *)
(* sections, so no '###' heading of a reserved section became a Term, also *)
(* after a '##' heading of another name inside the section; the definition *)
(* of a Term ends at the next header, so no line of a reserved section is  *)
(* in it; and the definition of the Term pending at a reserved header is   *)
(* the text collected before that header.                                  *)
C20_ReservedSectionsGiveNoTerms ==
    pc \notin {"start", "parse"} =>
        \A k \in DOMAIN terms :
            LET h == LastHeaderOf(DocLines, k)
                r == ReservedHeaderAfter(DocLines, h)
            IN  /\ h # 0
                /\ ~InReservedSection(DocLines, h)
                /\ terms[k].name = NameAt(DocLines, h)
                /\ terms[k].definition = DefinitionAt(DocLines, h)
                /\ r # 0 => terms[k].definition
                               = strip(JoinRange(<<NL>>, DocLines, h + 1, r - 1))

(* Api is pending with the text x when the reserved header is met; the     *)
(* section holds a '##' heading of another name, a '###' heading and text, *)
(* and the parser returns Api with the definition x and nothing else       *)
C20_Witness ==
    /\ pc = "render"
    /\ DocLines = <<TermLine(Api), <<"x">>, SectionLine(<<"Common Abbreviations">>),
                    SectionLine(<<"Notes">>), TermLine(<<"A", "P", "I">>)>>
    /\ DOMAIN terms = {<<"a", "p", "i">>}
    /\ terms[<<"a", "p", "i">>].name = Api
    /\ terms[<<"a", "p", "i">>].definition = <<"x">>


(* every file but the one at path is as it was before the first run *)
OnlyChanged(path) == \A p \in Paths \ {path} : files[p] = files0[p]

(* C18: --output redirects the write only.  When a run with --output has   *)
(* written, its terms and its supplementary text are those of              *)
(* <docs-dir>/glossary.md, the --output path holds the rendered content,   *)
(* and every other file, <docs-dir>/glossary.md among them, is unchanged;  *)
(* when a run without --output has written, <docs-dir>/glossary.md holds   *)
(* the rendered content and every other file is unchanged.                 *)
C18_OutputRedirectsWrite ==
    Wrote =>
        IF args.output.given
        THEN /\ args.output.path # glossary_path
             /\ terms = parse_existing_glossary(files0[glossary_path])
             /\ supplementary = parse_supplementary_sections(files0[glossary_path])
             /\ files[args.output.path] = File(content)
             /\ OnlyChanged(args.output.path)
        ELSE /\ files[glossary_path] = File(content)
             /\ OnlyChanged(glossary_path)

(* a run with --output on a glossary with a term replaced the old file at  *)
(* the --output path and left the glossary as it was                       *)
C18_Witness ==
    /\ Wrote
    /\ args.output.given
    /\ DOMAIN terms # {}
    /\ files0[args.output.path].exists
    /\ files[args.output.path] # files0[args.output.path]
    /\ files[glossary_path] = files0[glossary_path]
    /\ files[glossary_path] # files[args.output.path]


(***************************************************************************)
(* validate_metadata.py                                                    *)
(*                                                                         *)
(* The text of a validated file is a sequence of characters; a tag such as *)
(* @module is one atom, and the character after it is no word character.   *)
(* The path of a file is the sequence of the parts of its name, the last   *)
(* of them its suffix.                                                     *)
(***************************************************************************)

(* the variables of generate_glossary.py *)
gvars == <<env, files, locals, pc, exit_code, stdout, preview, stderr>>

(* the atoms that @(\w+) matches *)
TagAtoms ==
    {"@module", "@description", "@version", "@last_updated", "@status", "@author"}

(* _extract_metadata, lines 184-203: the matches of @(\w+)\s+([^\n]+) in   *)
(* text from position i on, left to right, added to metadata               *)
RECURSIVE extract_metadata(_, _, _)
extract_metadata(text, i, metadata) ==
    LET \* \s+ takes the whitespace from n + 1 on and gives back what it must
        \* for [^\n]+ to match: the value starts at the last position that
        \* is not a newline and has only whitespace between n and itself
        ValueStart(n) ==
            LastOf(SelectSeq(Indices(text),
                LAMBDA q : /\ q > n + 1
                           /\ text[q] # NL
                           /\ \A m \in (n + 1)..(q - 1) : text[m] \in Whitespace))
        MatchAt(n) ==
            /\ text[n] \in TagAtoms
            /\ n + 1 <= Len(text) /\ text[n + 1] \in Whitespace
            /\ ValueStart(n) # 0
        \* lines 197-201: the match at n, whose value ends before position e
        Store(n, e) ==
            LET tag_value == strip(SubSeq(text, ValueStart(n), e - 1))
            IN  IF (\A j \in 1..Len(tag_value) :
                        ~StartsAt(lower(tag_value), j, <<"f", "o", "r", "m", "a", "t">>))
                   /\ Len(tag_value) < 200
                THEN DictSet(metadata, text[n], tag_value)
                ELSE metadata
        From(n) ==
            IF n = 0 THEN metadata
            ELSE extract_metadata(text, Find(text, NL, ValueStart(n)),
                                  Store(n, Find(text, NL, ValueStart(n))))
    IN  From(FirstOf(SelectSeq(Indices(text), LAMBDA n : n >= i /\ MatchAt(n))))

(* _validate_file, lines 135-182, with _validate_required_tags (212-226)   *)
(* and _validate_tag_formats (228-300): the validator v after the file     *)
validate_file(v, file) ==
    LET name == file.path
        \* lines 189-190: content.split("\n")[:100], joined again
        Header(lines) ==
            join_lines(SubSeq(lines, 1, IF Len(lines) < 100 THEN Len(lines) ELSE 100))
        metadata == extract_metadata(Header(split_lines(file.text)), 1, EmptyDict)
        IsDigits(x) == x # <<>> /\ \A j \in 1..Len(x) : x[j] \in Digits
        \* x.split(c)
        Parts(x, cuts) ==
            [k \in 1..(Len(cuts) + 1) |->
                SubSeq(x, IF k = 1 THEN 1 ELSE cuts[k - 1] + 1,
                          IF k > Len(cuts) THEN Len(x) ELSE cuts[k] - 1)]
        Split(x, c) == Parts(x, SelectSeq(Indices(x), LAMBDA j : x[j] = c))
        \* ^\d+\.\d+\.\d+(?:-(?:alpha|beta|rc)\.\d+)?$
        PreRelease(x) ==
            /\ IsDigits(SubSeq(x, 1, Find(x, "-", 1) - 1))
            /\ SubSeq(x, Find(x, "-", 1) + 1, Len(x))
                   \in {<<"a", "l", "p", "h", "a">>, <<"b", "e", "t", "a">>,
                        <<"r", "c">>}
        SemVerParts(ps) ==
            \/ Len(ps) = 3 /\ \A k \in 1..3 : IsDigits(ps[k])
            \/ /\ Len(ps) = 4
               /\ IsDigits(ps[1]) /\ IsDigits(ps[2]) /\ PreRelease(ps[3])
               /\ IsDigits(ps[4])
        SEMVER_PATTERN(x) == SemVerParts(Split(x, "."))
        \* ^\d{4}-\d{2}-\d{2}$
        DATE_PATTERN(x) ==
            /\ Len(x) = 10
            /\ \A j \in 1..10 : IF j \in {5, 8} THEN x[j] = "-" ELSE x[j] \in Digits
        \* ^[a-z][a-z0-9_-]*$
        ModuleFormat(x) ==
            /\ x # <<>> /\ x[1] \in LowerCase
            /\ \A j \in 1..Len(x) : x[j] \in LowerCase \cup Digits \cup {"_", "-"}
        valid_statuses ==
            {<<"d", "r", "a", "f", "t">>,
             <<"i", "n", "-", "p", "r", "o", "g", "r", "e", "s", "s">>,
             <<"r", "e", "v", "i", "e", "w">>, <<"s", "t", "a", "b", "l", "e">>,
             <<"d", "e", "p", "r", "e", "c", "a", "t", "e", "d">>,
             <<"a", "r", "c", "h", "i", "v", "e", "d">>}
        Has(tag) == tag \in DOMAIN metadata
        \* lines 216-226
        required_tags == <<"@module", "@description", "@version">>
        missing ==
            SelectSeq([k \in 1..3 |-> [file |-> name, type |-> "missing_required_tag",
                                       tag |-> required_tags[k]]],
                      LAMBDA e : ~Has(e.tag))
        \* lines 233-258
        format_errors ==
            (IF Has("@version") /\ ~SEMVER_PATTERN(metadata["@version"])
             THEN <<[file |-> name, type |-> "invalid_version_format",
                     tag |-> "@version", value |-> metadata["@version"]]>>
             ELSE <<>>)
            \o (IF Has("@last_updated") /\ ~DATE_PATTERN(metadata["@last_updated"])
                THEN <<[file |-> name, type |-> "invalid_date_format",
                        tag |-> "@last_updated", value |-> metadata["@last_updated"]]>>
                ELSE <<>>)
        \* lines 261-300
        format_warnings ==
            (IF Has("@module") /\ ~ModuleFormat(metadata["@module"])
             THEN <<[file |-> name, type |-> "invalid_module_format",
                     tag |-> "@module", value |-> metadata["@module"]]>>
             ELSE <<>>)
            \o (IF Has("@status") /\ metadata["@status"] \notin valid_statuses
                THEN <<[file |-> name, type |-> "invalid_status",
                        tag |-> "@status", value |-> metadata["@status"]]>>
                ELSE <<>>)
        \* lines 167-182
        unique(w) ==
            IF ~(w.check_unique /\ Has("@module")) THEN w
            ELSE IF metadata["@module"] \in DOMAIN w.module_names
            THEN [w EXCEPT !.errors =
                     Append(@, [file |-> name, type |-> "duplicate_module",
                                tag |-> "@module", value |-> metadata["@module"]])]
            ELSE [w EXCEPT !.module_names = DictSet(@, metadata["@module"], name)]
    IN  IF name[1] = "." THEN v
        ELSE IF ~file.readable
        THEN [v EXCEPT !.warnings = Append(@, [file |-> name, type |-> "read_error"])]
        ELSE IF strip(file.text) = <<>> THEN v
        ELSE unique([v EXCEPT !.errors = @ \o missing \o format_errors,
                              !.warnings = @ \o format_warnings])

(* the paths that may exist under the directory given to the command, in   *)
(* the order of sorted()                                                   *)
ValidatedPaths ==
    << <<".", "h", ".py">>, <<"a", ".py">>, <<"b", ".py">>, <<"c", ".txt">> >>

(* collect_files in descending order of path *)
collect_files_descending(tree) ==
    LET found == SelectSeq(ValidatedPaths,
                           LAMBDA q : /\ tree[q].exists
                                      /\ q[Len(q)] \in
                                             {".py", ".tf", ".hcl", ".ts", ".tsx",
                                              ".js", ".jsx", ".sh", ".bash", ".ps1",
                                              ".psm1", ".yaml", ".yml", ".json",
                                              ".md"})
    IN  [k \in 1..Len(found) |->
            [path |-> found[Len(found) + 1 - k],
             readable |-> tree[found[Len(found) + 1 - k]].readable,
             text |-> tree[found[Len(found) + 1 - k]].text]]

(* _collect_files with no --language, lines 119-134 and 80-83: the files   *)
(* of the directory whose suffix is one of ALL_EXTENSIONS, sorted          *)
collect_files(tree) ==
    LET ALL_EXTENSIONS ==
            {".py", ".tf", ".hcl", ".ts", ".tsx", ".js", ".jsx", ".sh", ".bash",
             ".ps1", ".psm1", ".yaml", ".yml", ".json", ".md"}
        found == SelectSeq(ValidatedPaths,
                           LAMBDA q : /\ tree[q].exists
                                      /\ q[Len(q)] \in ALL_EXTENSIONS)
    IN  [k \in 1..Len(found) |->
            [path |-> found[k], readable |-> tree[found[k]].readable,
             text |-> tree[found[k]].text]]

(* main, lines 395-410, and validate_all, lines 105-113 *)
ValidatorMain ==
    /\ vrun.pc = "start"
    /\ IF ~vrun.paths_exist
       THEN /\ vrun' = [vrun EXCEPT !.pc = "exit", !.exit_code = 1,
                                    !.stderr = Append(@, "Error: Path does not exist")]
            /\ UNCHANGED validator
       ELSE /\ validator' =
                  [strict |-> vrun.args.strict,
                   check_unique |-> ~vrun.args.no_unique_check,
                   errors |-> <<>>, warnings |-> <<>>, module_names |-> EmptyDict]
            /\ IF collect_files(vrun.tree) = <<>>
               THEN vrun' = [vrun EXCEPT !.pc = "export", !.success = TRUE,
                                         !.printed = Append(@, "No files found")]
               ELSE vrun' = [vrun EXCEPT !.pc = "validate",
                                         !.files_to_check = collect_files(vrun.tree)]
    /\ UNCHANGED <<gvars, hook>>

(* validate_all, lines 115-116: one turn of the loop *)
ValidateFile ==
    /\ vrun.pc = "validate"
    /\ vrun.files_to_check # <<>>
    /\ validator' = validate_file(validator, Head(vrun.files_to_check))
    /\ vrun' = [vrun EXCEPT !.files_to_check = Tail(@)]
    /\ UNCHANGED <<gvars, hook>>

(* validate_all, line 118, and _report_results, lines 302-327 *)
ReportResults ==
    /\ vrun.pc = "validate"
    /\ vrun.files_to_check = <<>>
    /\ vrun' = [vrun EXCEPT
                  !.pc = "export",
                  !.success = (validator.errors = <<>>),
                  !.printed = Append(@, IF validator.errors # <<>>
                                        THEN "Metadata validation FAILED."
                                        ELSE "Metadata validation PASSED.")]
    /\ UNCHANGED <<validator, gvars, hook>>

(* main, lines 416-424: the object json.dumps writes to --output *)
ExportResults ==
    /\ vrun.pc = "export"
    /\ vrun' = [vrun EXCEPT
                  !.pc = "exiting",
                  !.written = IF vrun.args.output
                              THEN <<[success |-> vrun.success,
                                      errors |-> validator.errors,
                                      warnings |-> validator.warnings]>>
                              ELSE @]
    /\ UNCHANGED <<validator, gvars, hook>>

(* main, lines 426-430 *)
ValidatorExit ==
    /\ vrun.pc = "exiting"
    /\ vrun' = [vrun EXCEPT
                  !.pc = "exit",
                  !.exit_code = IF vrun.args.strict /\ validator.warnings # <<>>
                                THEN 1
                                ELSE IF vrun.success THEN 0 ELSE 1]
    /\ UNCHANGED <<validator, gvars, hook>>

(***************************************************************************)
(* SpecValidate: one run of validate_metadata.py on a directory that may   *)
(* hold a hidden file, a.py, b.py and c.txt; a.py and b.py are absent,     *)
(* unreadable, empty, or one of five headers: a good one, one with a       *)
(* module name in capitals, one with an unknown status, one without a      *)
(* version and one with a version that is no semantic version.             *)
(***************************************************************************)

InitValidate ==
    LET Tag(tag, value) == <<tag, " ">> \o value
        Doc(module, version, status) ==
            join_lines(<<Tag("@module", module), Tag("@description", <<"d">>)>>
                       \o version
                       \o <<Tag("@status", status),
                            Tag("@last_updated",
                                <<"2","0","2","5","-","1","0","-","2","8">>)>>)
        auth == <<"a", "u", "t", "h">>
        v100 == <<Tag("@version", <<"1", ".", "0", ".", "0">>)>>
        stable == <<"s", "t", "a", "b", "l", "e">>
        beta == <<"b", "e", "t", "a">>
        Present(text) == [exists |-> TRUE, readable |-> TRUE, text |-> text]
        Absent == [exists |-> FALSE, readable |-> FALSE, text |-> <<>>]
        Sources ==
            {Absent, [exists |-> TRUE, readable |-> FALSE, text |-> <<>>],
             Present(<<>>),
             Present(Doc(auth, v100, stable)),
             Present(Doc(<<"A", "u", "t", "h">>, v100, stable)),
             Present(Doc(auth, v100, beta)),
             Present(Doc(auth, <<>>, stable)),
             Present(Doc(auth, <<Tag("@version", <<"v", "1">>)>>, stable))}
    IN  /\ docs_exists = FALSE
        /\ files = [p \in Paths |-> NoFile]
        /\ files0 = files
        /\ args = PlainArgs
        /\ unreadable = {}
        /\ StartOfRun
        /\ HookIdle
        /\ validator = [strict |-> FALSE, check_unique |-> TRUE, errors |-> <<>>,
                        warnings |-> <<>>, module_names |-> EmptyDict]
        /\ \E a \in Sources, b \in Sources,
              h \in {Absent, Present(Doc(auth, <<>>, beta))},
              c \in {Absent, Present(<<"x">>)},
              strict \in BOOLEAN, no_unique_check \in BOOLEAN, output \in BOOLEAN,
              paths_exist \in BOOLEAN :
              vrun = [pc |-> "start",
                      args |-> [strict |-> strict, no_unique_check |-> no_unique_check,
                                output |-> output],
                      paths_exist |-> paths_exist,
                      tree |-> [q \in {ValidatedPaths[k] : k \in 1..4} |->
                                   CASE q = <<"a", ".py">> -> a
                                     [] q = <<"b", ".py">> -> b
                                     [] q = <<"c", ".txt">> -> c
                                     [] OTHER -> h],
                      files_to_check |-> <<>>, success |-> FALSE, written |-> <<>>,
                      exit_code |-> -1, printed |-> <<>>, stderr |-> <<>>]

NextValidate ==
    \/ ValidatorMain
    \/ ValidateFile
    \/ ReportResults
    \/ ExportResults
    \/ ValidatorExit

SpecValidate == InitValidate /\ [][NextValidate]_vars

(* C19: strict mode treats warnings as errors consistently.  When a run    *)
(* has ended: with --strict and at least one warning the exit status is 1  *)
(* and the JSON written by --output has success false; without --strict,   *)
(* with warnings and no error, the exit status is 0 and success is true;   *)
(* with at least one error the exit status is 1 in both modes.             *)
C19_StrictIsConsistent ==
    vrun.pc = "exit" =>
        LET warned == validator.warnings # <<>>
            failed == validator.errors # <<>>
            json_success(b) == \A n \in 1..Len(vrun.written) :
                                   vrun.written[n].success = b
        IN  /\ (vrun.args.strict /\ warned) =>
                   vrun.exit_code = 1 /\ json_success(FALSE)
            /\ (~vrun.args.strict /\ warned /\ ~failed) =>
                   vrun.exit_code = 0 /\ json_success(TRUE)
            /\ failed => vrun.exit_code = 1

(***************************************************************************)
(* SpecRules: one plain run on a glossary of at most MaxLines lines, each  *)
(* a '---' line, a letter header, a term header, a reserved header or a    *)
(* line of text, alone or after a front-matter block that holds a reserved *)
(* header.                                                                 *)
(***************************************************************************)

RulesLines ==
    {RULE, SectionLine(<<"A">>), TermLine(Api),
     SectionLine(<<"Common Abbreviations">>), <<"x">>}

RulesHead == <<RULE, SectionLine(<<"Common Abbreviations">>), RULE>>

InitRules ==
    \/ InitPlainRun(<<>>, RulesLines)
    \/ InitPlainRun(RulesHead, RulesLines)

SpecRules == InitRules /\ [][NextPlain]_vars

(* the positions of the lines of L whose stripped content is '---' *)
Delimiters(L) == SelectSeq(Indices(L), LAMBDA i : strip(L[i]) = RULE)

(* L without its first two '---' lines and the lines between them *)
OutsideFrontMatter(L) ==
    SubSeq(L, 1, Delimiters(L)[1] - 1)
        \o SubSeq(L, Delimiters(L)[2] + 1, Len(L))

(* the text between the header at line i of L and the next header, without *)
(* the rules that end it                                                   *)
RuleFreeDefinitionAt(L, i) ==
    LET next == OrPastEnd(FirstOf(SelectSeq(Indices(L),
                    LAMBDA m : m > i /\ HeaderAt(L, m))), L, i + 1)
    IN  strip(sub_trailing_rules(strip(JoinRange(<<NL>>, L, i + 1, next - 1))))

(* the clean-up of the captured lines: footer lines and the final rule     *)
(* removed, the ends stripped                                              *)
CleanedUp(lines) ==
    strip(sub_final_rule(rstrip(strip_footer(strip(join_lines(lines))))))

(* the parser returned the Terms of the '###' headers of the lines V that   *)
(* stand outside reserved sections, each with the name, the section and    *)
(* the definition V gives it                                               *)
TermsAreThoseOf(V) ==
    /\ DOMAIN terms = {lower(NameAt(V, i)) : i \in TermHeaders(V)}
    /\ \A k \in DOMAIN terms :
           terms[k] = [name |-> NameAt(V, LastHeaderOf(V, k)),
                       definition |-> RuleFreeDefinitionAt(V, LastHeaderOf(V, k)),
                       section |-> SectionAt(V, LastHeaderOf(V, k))]

(* the extractor returned the lines of the reserved sections of V *)
SupplementaryIsThatOf(V) == supplementary = CleanedUp(ReservedLines(V))

(* C21: front-matter skipping.  When the glossary has two or more '---'    *)
(* lines, the parser and the extractor return what the lines outside the   *)
(* front matter give, a later '---' line being one of them, a content line *)
(* like any other: the Terms are those of the '###' headers outside the    *)
(* front matter and the reserved sections, each with the name, the section *)
(* and the definition that the lines outside the front matter give it, and *)
(* the supplementary text is made of the lines of the reserved sections    *)
(* outside the front matter.  The two delimiters and the lines between     *)
(* them give no Term, no section, no definition line and no supplementary  *)
(* line.                                                                   *)
C21_FrontMatterSkipped ==
    (pc \in {"render", "write", "exit"} /\ Len(Delimiters(DocLines)) >= 2) =>
        /\ TermsAreThoseOf(OutsideFrontMatter(DocLines))
        /\ SupplementaryIsThatOf(OutsideFrontMatter(DocLines))

(* the front matter holds a reserved header, and a third '---' line stands *)
(* between two lines of the definition of Api: Api is the one Term, the    *)
(* third '---' line is a line of its definition, and the supplementary     *)
(* text is empty                                                           *)
C21_Witness ==
    /\ pc = "render"
    /\ DocLines = RulesHead \o <<TermLine(Api), <<"x">>, RULE, <<"x">> >>
    /\ DOMAIN terms = {<<"a", "p", "i">>}
    /\ terms[<<"a", "p", "i">>].definition = <<"x", NL>> \o RULE \o <<NL, "x">>
    /\ supplementary = <<>>

(* the lines of L before the last of its '---' lines and outside its front *)
(* matter                                                                  *)
BeforeLastDelimiter(L) ==
    LET d == Delimiters(L)
        upto == SubSeq(L, 1, d[Len(d)] - 1)
    IN  IF Len(d) <= 2 THEN SubSeq(L, 1, d[1] - 1)
        ELSE OutsideFrontMatter(upto)

(* C22 as stated: malformed front matter.  When the glossary has an odd    *)
(* number of '---' lines the front-matter flag stays set after the last of *)
(* them, so the lines after it give no Term and no supplementary text: the *)
(* parser and the extractor return what the lines before it give.          *)
C22_OddDelimitersSkipRest ==
    (pc \in {"render", "write", "exit"} /\ Len(Delimiters(DocLines)) % 2 = 1) =>
        /\ TermsAreThoseOf(BeforeLastDelimiter(DocLines))
        /\ SupplementaryIsThatOf(BeforeLastDelimiter(DocLines))

(* C22, amended: malformed front matter is never an error.  Whatever the   *)
(* number of '---' lines of the glossary, the parse and the extraction     *)
(* finish and the run goes on without raising.  When the glossary has      *)
(* exactly one '---' line, the front-matter flag stays set to the end of   *)
(* the file: the parser and the extractor return what the lines before     *)
(* that line give, and the lines after it give no Term and no              *)
(* supplementary text.                                                     *)
C22_UnclosedFrontMatterSkipsRest ==
    /\ pc # "raised"
    /\ (pc \in {"render", "write", "exit"} /\ Len(Delimiters(DocLines)) = 1) =>
           /\ TermsAreThoseOf(BeforeLastDelimiter(DocLines))
           /\ SupplementaryIsThatOf(BeforeLastDelimiter(DocLines))

(* a reserved header with a line of text, one '---' line, and after it a   *)
(* term header, a letter header and a line of text: the supplementary text *)
(* stops before the '---' line and there is no Term                        *)
C22_Witness ==
    /\ pc = "render"
    /\ DocLines = <<SectionLine(<<"Common Abbreviations">>), <<"x">>, RULE,
                    TermLine(Api), <<"x">> >>
    /\ terms = EmptyDict
    /\ supplementary = SectionLine(<<"Common Abbreviations">>) \o <<NL, "x">>

(***************************************************************************)
(* SpecTrailing: one plain run on a glossary that opens with an empty      *)
(* front-matter block, so that every later '---' line is a content line,   *)
(* followed by at most MaxLines lines: a term header, a line of text, a    *)
(* line of text that ends with three dashes, a '---' line, a blank line, a *)
(* letter header and a '##' header of another name.                        *)
(***************************************************************************)

TrailingLines ==
    {TermLine(Api), <<"x">>, <<"x", "-", "-", "-">>, RULE, <<>>,
     SectionLine(<<"A">>), SectionLine(<<"Notes">>)}

InitTrailing == InitPlainRun(<<RULE, RULE>>, TrailingLines)

SpecTrailing == InitTrailing /\ [][NextPlain]_vars

(* the lines of L without the run of '---' lines and blank lines that ends *)
(* them                                                                    *)
DropTrailingRules(L) ==
    SubSeq(L, 1, LastOf(SelectSeq(Indices(L),
                                  LAMBDA i : strip(L[i]) \notin {<<>>, RULE})))

(* the lines between the header at line i of L and the next header, or the *)
(* end of L                                                                *)
BodyAt(L, i) ==
    LET next == OrPastEnd(FirstOf(SelectSeq(Indices(L),
                    LAMBDA m : m > i /\ HeaderAt(L, m))), L, i + 1)
    IN  SubSeq(L, i + 1, next - 1)

(* C23: trailing horizontal rules are stripped from definitions.  Whatever *)
(* ends the body of a term (a letter header, another '##' header, the next *)
(* '###' header, the end of the input), its definition is the text of the  *)
(* lines of the body before the run of '---' lines and blank lines that    *)
(* ends the body, unchanged but for the whitespace at its two ends; so it  *)
(* ends neither with a '---' line nor with whitespace.                     *)
C23_TrailingRulesStripped ==
    pc \in {"render", "write", "exit"} =>
        LET V == OutsideFrontMatter(DocLines)
        IN  \A k \in DOMAIN terms :
                terms[k].definition
                    = strip(join_lines(DropTrailingRules(BodyAt(V, LastHeaderOf(V, k)))))

(***************************************************************************)
(* SpecCode: one --cross-ref run on a glossary that defines Go and on one  *)
(* document made of at most MaxFrags + 1 fragments: the name Go, a letter, *)
(* a space, a backtick, a fence.                                           *)
(***************************************************************************)

CodeFrags == {Go, <<"x">>, <<" ">>, <<BT>>, FENCE}

InitCode ==
    /\ docs_exists = TRUE
    /\ \E fs \in SeqsUpTo(CodeFrags, MaxFrags), last \in CodeFrags \cup {<<>>} :
          files = Tree(File(join_lines(<<SectionLine(<<"G">>), TermLine(Go), <<"y">> >>)),
                       File(Concat(fs) \o last), NoFile, NoFile, NoFile)
    /\ files0 = files
    /\ args = [PlainArgs EXCEPT !.cross_ref = TRUE]
    /\ unreadable = {}
    /\ StartOfRun
    /\ ValidatorIdle
    /\ HookIdle

SpecCode == InitCode /\ [][NextScan]_vars

(* the positions of s from i on that stand in a fenced block: from a fence *)
(* to the end of the next fence after it, block after block                *)
RECURSIVE FencedFrom(_, _)
FencedFrom(s, i) ==
    LET open == FirstOf(SelectSeq(Indices(s),
                    LAMBDA n : n >= i /\ StartsAt(s, n, <<BT, BT, BT>>)))
        close == FirstOf(SelectSeq(Indices(s),
                    LAMBDA n : n >= open + 3 /\ StartsAt(s, n, <<BT, BT, BT>>)))
    IN  IF open = 0 \/ close = 0 THEN {}
        ELSE (open..(close + 2)) \cup FencedFrom(s, close + 3)

(* the positions of t from j on that stand in an inline span: from a       *)
(* backtick that another character follows to the next backtick after it,  *)
(* span after span                                                         *)
RECURSIVE InlineFrom(_, _)
InlineFrom(t, j) ==
    LET open == FirstOf(SelectSeq(Indices(t),
                    LAMBDA n : /\ n >= j /\ t[n] = BT
                               /\ n < Len(t) /\ t[n + 1] # BT
                               /\ \E c \in (n + 2)..Len(t) : t[c] = BT))
        close == FirstOf(SelectSeq(Indices(t), LAMBDA n : n > open /\ t[n] = BT))
    IN  IF open = 0 THEN {}
        ELSE (open..close) \cup InlineFrom(t, close + 1)

(* the positions of s that stand in code: in a fenced block, or in an      *)
(* inline span of what the fenced blocks leave                             *)
CodePositions(s) ==
    LET fenced == FencedFrom(s, 1)
        left == SelectSeq(Indices(s), LAMBDA n : n \notin fenced)
        inline == InlineFrom([j \in 1..Len(left) |-> s[left[j]]], 1)
    IN  fenced \cup {left[j] : j \in inline}

(* C24: code is excluded from usage matching.  After the scan, a term      *)
(* whose base name stands in the document, and only in its fenced blocks   *)
(* and inline spans, has no Reference to the document, and a term whose    *)
(* base name stands in the document as a whole word outside code has one,  *)
(* whatever else the document holds; the inline spans are those of the     *)
(* text the fenced blocks leave.                                           *)
C24_CodeIsExcluded ==
    references.some =>
        \A k \in DOMAIN terms :
            LET W == base_name_of(terms[k].name)
                s == files[<<"a.md">>].content
                at == {i \in 1..Len(s) : OccursAt(s, i, W)}
                InCode(i) == \A p \in i..(i + Len(W) - 1) : p \in CodePositions(s)
                Outside(i) == \A p \in i..(i + Len(W) - 1) : p \notin CodePositions(s)
            IN  /\ (at # {} /\ \A i \in at : InCode(i)) => ~HasReference(k, <<"a.md">>)
                /\ (\E i \in at : Outside(i) /\ WholeWordAt(s, i, W))
                       => HasReference(k, <<"a.md">>)

(***************************************************************************)
(* SpecDiscard: one --scan-new run on a glossary that defines Api (web)    *)
(* and on three documents.  a.md is made of at most MaxBold fragments: an  *)
(* emphasized phrase (the base name of the qualified term, its full name,  *)
(* a new phrase, a phrase that opens with Note, a phrase of two letters),  *)
(* a new phrase emphasized inside a fenced block, a space.  b.md and c.md  *)
(* are absent or emphasize every phrase outside code.                      *)
(***************************************************************************)

ApiQualified == Api \o <<" ", "(", "w", "e", "b", ")">>

DiscardFrags ==
    {Bold(Api), Bold(ApiQualified), Bold(Foo), FENCE \o Bold(Foo) \o FENCE,
     Bold(<<"N", "o", "t", "e", "s">>), Bold(<<"O", "k">>), <<" ">>}

InitDiscard ==
    /\ docs_exists = TRUE
    /\ \E a \in SeqsUpTo(DiscardFrags, MaxBold),
          b \in {NoFile, File(Concat(<<Bold(Api), Bold(ApiQualified), Bold(Foo),
                                       Bold(<<"N", "o", "t", "e", "s">>),
                                       Bold(<<"O", "k">>)>>))} :
          \E c \in {NoFile, b} :
              files = Tree(File(join_lines(<<SectionLine(<<"A">>),
                                             TermLine(ApiQualified), <<"y">> >>)),
                           File(Concat(a)), b, c, NoFile)
    /\ files0 = files
    /\ args = [PlainArgs EXCEPT !.scan_new = TRUE]
    /\ unreadable = {}
    /\ StartOfRun
    /\ ValidatorIdle
    /\ HookIdle

SpecDiscard == InitDiscard /\ [][NextCandidates]_vars

(* phrase is the name of a term of the glossary, or the name of a term     *)
(* without its parenthetical qualifier, whatever the case of its letters   *)
KnownTerm(phrase) ==
    \E k \in DOMAIN terms :
        \/ lower(phrase) = lower(terms[k].name)
        \/ lower(phrase) = lower(base_name_of(terms[k].name))

(* phrase is emphasized in the document at path outside its fenced blocks *)
EmphasizedOutsideFences(phrase, path) ==
    LET s == files[path].content
        mark == BOLD \o phrase \o BOLD
    IN  \E i \in 1..Len(s) :
            /\ StartsAt(s, i, mark)
            /\ \A p \in i..(i + Len(mark) - 1) : p \notin FencedFrom(s, 1)

(* C25: candidate discard rules.  At the end of a --scan-new run no        *)
(* candidate is shorter than 3 characters, none is a term of the glossary, *)
(* the case of the letters ignored and a term defined with a parenthetical *)
(* qualifier known by its name without the qualifier too, none starts with *)
(* Version, Note, Warning or Important, none holds a colon, and each is    *)
(* emphasized outside fenced blocks in some scanned document.              *)
C25_CandidatesDiscarded ==
    (pc = "exit" /\ args.scan_new /\ exit_code = 0) =>
        \A phrase \in DOMAIN candidates :
            /\ Len(phrase) >= 3
            /\ ~KnownTerm(phrase)
            /\ \A pre \in {<<"V","e","r","s","i","o","n">>, <<"N","o","t","e">>,
                           <<"W","a","r","n","i","n","g">>,
                           <<"I","m","p","o","r","t","a","n","t">>} :
                   ~StartsAt(phrase, 1, pre)
            /\ \A n \in 1..Len(phrase) : phrase[n] # ":"
            /\ \E p \in ScannedPaths : EmphasizedOutsideFences(phrase, p)

(* the number of times the run printed line *)
TimesPrinted(line) == Cardinality({i \in 1..Len(stdout) : stdout[i] = line})

(* C26: single write at the end.  A step of a run changes the tree only    *)
(* when it is the write step, which prints its 'Wrote' line and ends the   *)
(* run: at that step the terms and the supplementary text are those of the *)
(* glossary, the usage scan has returned when --cross-ref asks for it, the *)
(* content is rendered from them, and the step puts that content at the    *)
(* output path and changes no other file.  A run prints its 'Wrote' line   *)
(* at most once, and a run that ended with an exception never printed it:  *)
(* it changed no file.                                                     *)
C26_SingleWriteAtEnd ==
    /\ [][files' # files =>
            /\ pc = "write" /\ pc' = "exit" /\ run' = run
            /\ TimesPrinted("Wrote terms") = 0
            /\ stdout' # stdout /\ stdout'[Len(stdout) + 1] = "Wrote terms"
            /\ terms = parse_existing_glossary(files[glossary_path])
            /\ supplementary = parse_supplementary_sections(files[glossary_path])
            /\ args.cross_ref =>
                   /\ references.some
                   /\ references.value
                          = scan_docs_for_term_usage(files, unreadable, terms).value
            /\ content = generate_glossary_content(terms, references, supplementary,
                                                   args.cross_ref)
            /\ files' = [files EXCEPT
                           ![IF args.output.given THEN args.output.path
                             ELSE glossary_path] = File(content)]]_vars
    /\ [](/\ TimesPrinted("Wrote terms") <= 1
          /\ pc = "raised" => TimesPrinted("Wrote terms") = 0)

(* the third run of the command with --cross-ref has written: each of the  *)
(* three runs wrote once                                                   *)
C26_Witness ==
    /\ Wrote
    /\ run = 3
    /\ args.cross_ref
    /\ unreadable = {}
    /\ TimesPrinted("Wrote terms") = 1
    /\ files[glossary_path] = File(content)
    /\ files # files0

(***************************************************************************)
(* hooks/generate_page_index.py.  A python value is a record of its type   *)
(* and its content: a str, a list of values, a datetime.date (what YAML    *)
(* makes of an unquoted date, and json cannot encode).  page.meta is a     *)
(* dict or None, page.title a str or None.  The file page-index.json holds *)
(* the entries json.dump wrote, and is complete when the dump returned.    *)
(***************************************************************************)

Str(s) == [type |-> "str", text |-> s]
List(items) == [type |-> "list", items |-> items]
Date == [type |-> "date", text |-> "2026-02-15"]

(* what on_page_context appends for page, as a list: lines 18-33 *)
page_entry(page) ==
    LET \* bool(v)
        Truthy(v) == CASE v.type = "list" -> v.items # <<>>
                       [] v.type = "str" -> v.text # ""
                       [] OTHER -> TRUE
        \* page.meta or {}
        meta == IF page.meta.some THEN page.meta.value ELSE EmptyDict
        get(key, default) == IF key \in DOMAIN meta THEN meta[key] ELSE default
        tags == get("tags", List(<<>>))
        category == get("category", Str(""))
        title == get("title", IF page.title.some /\ page.title.value # ""
                              THEN Str(page.title.value) ELSE Str(""))
    IN  IF Truthy(tags) \/ Truthy(category)
        THEN <<[url |-> page.url,
                title |-> title,
                tags |-> IF tags.type = "list" THEN tags ELSE List(<<tags>>),
                category |-> category]>>
        ELSE <<>>

(* json.dump can encode the entry *)
Encodable(entry) ==
    LET Plain(v) == v.type = "str"
    IN  /\ Plain(entry.title) /\ Plain(entry.category)
        /\ \A n \in 1..Len(entry.tags.items) : Plain(entry.tags.items[n])

MaxBuilds == 3
MaxPages == 2

(* lines 16-35: mkdocs calls on_page_context once for each page of a build *)
on_page_context(page) ==
    /\ hook.pc = "build"
    /\ Len(hook.calls) < MaxPages
    /\ \A n \in 1..Len(hook.calls) : hook.calls[n].url # page.url
    /\ hook' = [hook EXCEPT !._pages = @ \o page_entry(page),
                            !.calls = Append(@, page)]
    /\ UNCHANGED <<gvars, validator, vrun>>

(* on_post_build that leaves _pages as it is *)
on_post_build_no_clear(opens) ==
    /\ hook.pc = "build"
    /\ hook' = [hook EXCEPT !.index = [exists |-> TRUE, complete |-> TRUE,
                                       entries |-> hook._pages],
                            !.pc = "built"]
    /\ UNCHANGED <<gvars, validator, vrun>>

(* lines 38-47: open() raises or opens; json.dump writes the entries up to *)
(* the first it cannot encode, and raises there; _pages.clear() runs when  *)
(* neither raised                                                          *)
on_post_build(opens) ==
    /\ hook.pc = "build"
    /\ LET bad == FirstOf(SelectSeq([n \in 1..Len(hook._pages) |-> n],
                                    LAMBDA n : ~Encodable(hook._pages[n])))
       IN  hook' =
             IF ~opens
             THEN [hook EXCEPT !.pc = "raised", !.raised = @ + 1]
             ELSE IF bad # 0
             THEN [hook EXCEPT !.index = [exists |-> TRUE, complete |-> FALSE,
                                          entries |-> SubSeq(hook._pages, 1, bad - 1)],
                               !.pc = "raised", !.raised = @ + 1]
             ELSE [hook EXCEPT !.index = [exists |-> TRUE, complete |-> TRUE,
                                          entries |-> hook._pages],
                               !._pages = <<>>,
                               !.pc = "built"]
    /\ UNCHANGED <<gvars, validator, vrun>>

(* the process builds the site again (mkdocs serve): the module stays      *)
(* loaded, with its _pages                                                 *)
NextBuild ==
    /\ hook.pc \in {"built", "raised"}
    /\ hook.build < MaxBuilds
    /\ hook' = [hook EXCEPT !.pc = "build", !.build = @ + 1, !.calls = <<>>]
    /\ UNCHANGED <<gvars, validator, vrun>>

(* pages with no meta, with a list of tags, with one tag that is not in a  *)
(* list, with a category alone, with empty tags and category, and with a   *)
(* tag that is a date                                                      *)
HookPages ==
    LET Page(url, title, meta) == [url |-> url, title |-> title, meta |-> meta]
    IN  {Page("a/", Some("A"), None),
         Page("b/", Some("B"), Some("tags" :> List(<<Str("t")>>) @@ "title" :> Str("Bee"))),
         Page("c/", None, Some("tags" :> Str("t") @@ "category" :> Str("c"))),
         Page("d/", Some("D"), Some("category" :> Str("c"))),
         Page("e/", Some("E"), Some("tags" :> List(<<>>) @@ "category" :> Str(""))),
         Page("f/", Some("F"), Some("tags" :> List(<<Date>>)))}

(* the pages of HookPages that json.dump can encode *)
PlainPages == {page \in HookPages : \A n \in 1..Len(page_entry(page)) :
                                        Encodable(page_entry(page)[n])}

(* a build process has imported the hook: _pages = [] (line 14); the site  *)
(* directory holds no index yet                                            *)
InitHook ==
    /\ docs_exists = FALSE
    /\ files = [p \in Paths |-> NoFile]
    /\ files0 = files
    /\ args = PlainArgs
    /\ unreadable = {}
    /\ StartOfRun
    /\ ValidatorIdle
    /\ hook = [pc |-> "build", build |-> 1, _pages |-> <<>>, calls |-> <<>>,
               raised |-> 0,
               index |-> [exists |-> FALSE, complete |-> FALSE, entries |-> <<>>]]

(* builds whose pages json can encode, in a site directory that can be     *)
(* written                                                                 *)
NextHook ==
    \/ \E page \in PlainPages : on_page_context(page)
    \/ on_post_build(TRUE)
    \/ NextBuild

SpecHook == InitHook /\ [][NextHook]_vars

(* builds of any pages, where open() may fail *)
NextHookFaults ==
    \/ \E page \in HookPages : on_page_context(page)
    \/ \E opens \in BOOLEAN : on_post_build(opens)
    \/ NextBuild

SpecHookFaults == InitHook /\ [][NextHookFaults]_vars

(* the entries of the calls of the current build, in call order: one for   *)
(* each page with tags or a category that are not empty, its tags in a     *)
(* list                                                                    *)
EntriesOfBuild ==
    LET calls == hook.calls
        Has(page, key) == page.meta.some /\ key \in DOMAIN page.meta.value
        Tags(page) == IF Has(page, "tags") THEN page.meta.value["tags"] ELSE List(<<>>)
        Category(page) == IF Has(page, "category") THEN page.meta.value["category"]
                          ELSE Str("")
        Kept(n) == \/ Tags(calls[n]) \notin {List(<<>>), Str("")}
                   \/ Category(calls[n]) # Str("")
        kept == SelectSeq([n \in 1..Len(calls) |-> n], Kept)
        Entry(page) ==
            [url |-> page.url,
             title |-> IF Has(page, "title") THEN page.meta.value["title"]
                       ELSE IF page.title.some THEN Str(page.title.value) ELSE Str(""),
             tags |-> IF Tags(page).type = "list" THEN Tags(page)
                      ELSE List(<<Tags(page)>>),
             category |-> Category(page)]
    IN  [j \in 1..Len(kept) |-> Entry(calls[kept[j]])]

(* C27: the page-index hook collects, then flushes once per build.  In a   *)
(* process whose builds all succeed, when on_post_build has returned the   *)
(* index file holds one entry for each on_page_context call of this build  *)
(* whose page has tags or a category that are not empty, in call order,    *)
(* the tags of every entry are a list, and _pages is empty: no entry of an *)
(* earlier build is in the index.                                          *)
C27_CollectThenFlush ==
    hook.pc = "built" =>
        /\ hook.index = [exists |-> TRUE, complete |-> TRUE, entries |-> EntriesOfBuild]
        /\ \A n \in 1..Len(hook.index.entries) :
               hook.index.entries[n].tags.type = "list"
        /\ hook._pages = <<>>

(* the third build called c/ (one tag, not in a list) and d/ (a category   *)
(* alone) after two builds that wrote other pages: the index holds c/ with *)
(* its tag in a list, then d/                                              *)
C27_Witness ==
    /\ hook.pc = "built"
    /\ hook.build = 3
    /\ Len(hook.calls) = 2
    /\ hook.calls[1].url = "c/"
    /\ hook.calls[2].url = "d/"
    /\ Len(hook.index.entries) = 2
    /\ hook.index.entries[1].tags = List(<<Str("t")>>)
    /\ hook.index.entries[2].url = "d/"

(* C28: no entry leaks after a failed flush.  When on_post_build has       *)
(* returned in a process where an earlier on_post_build raised, the index  *)
(* file holds the entries of the calls of this build and no others, and no *)
(* page twice.                                                             *)
C28_NoLeakAfterFailedFlush ==
    (hook.pc = "built" /\ hook.raised > 0) =>
        /\ hook.index.entries = EntriesOfBuild
        /\ \A m, n \in 1..Len(hook.index.entries) :
               hook.index.entries[m].url = hook.index.entries[n].url => m = n

(***************************************************************************)
(* SpecSpacing: one plain run on a glossary of at most MaxLines lines: a   *)
(* letter header, a letter header with two spaces after '##', a reserved   *)
(* header, a term header, a line of text.                                  *)
(***************************************************************************)

InitSpacing ==
    InitPlainRun(<<>>, {SectionLine(<<"A">>), <<"#", "#", " ", " ", "A">>,
                        SectionLine(<<"Common Abbreviations">>),
                        TermLine(Api), <<"x">>})

SpecSpacing == InitSpacing /\ [][NextPlain]_vars

(* C29: the parser and the extractor classify lines alike.  After every    *)
(* line of the glossary outside front matter, the capturing flag of the    *)
(* extractor equals the in_non_term_section flag of the parser, a letter   *)
(* header with two spaces after '##' switching both off like any letter    *)
(* header; and no line is both appended to the supplementary lines and to  *)
(* the definition lines of a term.                                         *)
C29_ClassifyAlike ==
    pc \in {"render", "write", "exit"} =>
        \A n \in 1..Len(DocLines) :
            LET parser == ParseLines(ParserInit, DocLines, 1, n)
                extractor == ExtractLines(ExtractorInit, DocLines, 1, n)
                parser_before == ParseLines(ParserInit, DocLines, 1, n - 1)
                extractor_before == ExtractLines(ExtractorInit, DocLines, 1, n - 1)
            IN  /\ ~parser.in_frontmatter =>
                       extractor.capturing = parser.in_non_term_section
                /\ ~(/\ Len(extractor.supplementary_lines)
                            > Len(extractor_before.supplementary_lines)
                     /\ Len(parser.current_definition_lines)
                            > Len(parser_before.current_definition_lines))

(* the positions in ValidatedPaths of the files the run validated: the     *)
(* source files that exist, are not hidden, can be read and are not blank  *)
ValidatedFiles ==
    {k \in 1..Len(ValidatedPaths) :
        LET q == ValidatedPaths[k]
        IN  /\ vrun.tree[q].exists
            /\ q[Len(q)] = ".py"
            /\ q[1] # "."
            /\ vrun.tree[q].readable
            /\ strip(vrun.tree[q].text) # <<>>}

(* the tags of the header of the k-th path *)
HeaderTags(k) == extract_metadata(vrun.tree[ValidatedPaths[k]].text, 1, EmptyDict)

(* the validated files that declare a module name *)
ModuleFiles == {k \in ValidatedFiles : "@module" \in DOMAIN HeaderTags(k)}

(* the duplicate_module errors of the run, in the order recorded *)
DuplicateErrors ==
    SelectSeq(validator.errors, LAMBDA e : e.type = "duplicate_module")

(* C30: duplicate module detection.  When a run of the validator with the  *)
(* unique check has validated its files, in ascending order of path, a     *)
(* file has a duplicate_module error exactly when a validated file before  *)
(* it declares the same @module value, and it has one such error at most;  *)
(* so the first file that declares a name has none, and the errors are as  *)
(* many as the files with a @module tag less the distinct @module values.  *)
(* With --no-unique-check the run records no duplicate_module error.       *)
C30_DuplicateModules ==
    (vrun.pc \in {"export", "exiting", "exit"} /\ vrun.paths_exist) =>
        IF vrun.args.no_unique_check THEN DuplicateErrors = <<>>
        ELSE /\ \A k \in 1..Len(ValidatedPaths) :
                    LET flagged == {n \in 1..Len(DuplicateErrors) :
                                       DuplicateErrors[n].file = ValidatedPaths[k]}
                        earlier == {j \in ModuleFiles :
                                       /\ j < k
                                       /\ k \in ModuleFiles
                                       /\ HeaderTags(j)["@module"]
                                              = HeaderTags(k)["@module"]}
                    IN  /\ Cardinality(flagged) <= 1
                        /\ flagged # {} <=> earlier # {}
             /\ Len(DuplicateErrors)
                    = Cardinality(ModuleFiles)
                        - Cardinality({HeaderTags(k)["@module"] : k \in ModuleFiles})

(* a hidden file, a.py and b.py all declare the module auth: the hidden    *)
(* file is not validated, a.py is the first to declare the name, and the   *)
(* one duplicate_module error is that of b.py                              *)
C30_Witness ==
    /\ vrun.pc = "exit"
    /\ ~vrun.args.no_unique_check
    /\ vrun.tree[<<".", "h", ".py">>].exists
    /\ ModuleFiles = {2, 3}
    /\ HeaderTags(2)["@module"] = HeaderTags(3)["@module"]
    /\ Len(DuplicateErrors) = 1
    /\ DuplicateErrors[1].file = <<"b", ".py">>

====
